---------------------------- MODULE Spec2Model ----------------------------
(***************************************************************************)
(* Authentication / session core of holodesk-backend:                      *)
(*   - the token service (services/tokenService: src/unnamed/part_005),    *)
(*   - the User model    (models/User:           src/unnamed/part_004),    *)
(*   - the auth gate     (src/src/middleware/authMiddleware.js),           *)
(*   - the controllers   (controllers/authController: src/unnamed/part_003)*)
(*   - the auth routes   (second half of src/src/utils/validators.js).     *)
(*                                                                         *)
(* Node runs one handler at a time and switches handlers only at an        *)
(* `await`; every action below is therefore one run-to-completion segment  *)
(* of a handler: from one await (whose store call it performs) up to the   *)
(* next await or to the response.                                          *)
(***************************************************************************)
EXTENDS Integers, Sequences, FiniteSets, TLC

VARIABLES
    env,    \* process.env: the signing secrets and expiry settings
    now,    \* Math.floor(Date.now() / 1000)
    users,  \* the users collection: _id -> document (or NoDoc)
    req,    \* the requests in flight: slot -> request context
    left,   \* number of requests the run still accepts
    issued, \* the tokens sent to clients so far
    tk      \* token service bench: one token and what the service answered

vars == <<env, now, users, req, left, issued, tk>>
sysvars == <<users, req, left, issued>>

----------------------------------------------------------------------------
(* Bounds of the model *)

MaxTime == 2        \* the clock runs 0..MaxTime
MaxExpire == 2      \* configured expiry durations: 1s..MaxExpire s
NumIds == 2         \* user ids 1..NumIds

Times == 0..MaxTime
Ids == 1..NumIds

----------------------------------------------------------------------------
(* Values *)

Null == [null |-> TRUE]
IsNull(x) == "null" \in DOMAIN x

\* an env variable that is not set
Unset == [n |-> 0, unit |-> "unset"]

\* vercel/ms as jsonwebtoken's timespan uses it: "<n><unit>" in seconds
UnitSeconds(unit) ==
    CASE unit = "s" -> 1
      [] unit = "m" -> 60
      [] unit = "h" -> 3600
      [] unit = "d" -> 86400

Timespan(v) == v.n * UnitSeconds(v.unit)

Issuer == "holodesk-api"
Audience == "holodesk-client"

\* the nbf claim is absent
NoClaim == 0 - 1

Keys == {"k1", "k2", "kx"}      \* "kx": a key that is neither secret

----------------------------------------------------------------------------
(* jsonwebtoken, as tokenService calls it *)

\* jwt.sign(payload, secret, {expiresIn, issuer, audience})
JwtSign(userId, type, iat, secret, expiresIn) ==
    [form |-> "jwt", userId |-> userId, type |-> type, iat |-> iat,
     exp |-> iat + Timespan(expiresIn), nbf |-> NoClaim,
     iss |-> Issuer, aud |-> Audience, key |-> secret]

\* the claims jwt.verify / jwt.decode hand back
Payload(token) ==
    [userId |-> token.userId, type |-> token.type, iat |-> token.iat,
     exp |-> token.exp, iss |-> token.iss, aud |-> token.aud]

\* jwt.verify(token, secret, {issuer, audience}): the payload, or the name of
\* the error thrown. Order of jsonwebtoken's checks: shape, signature, nbf,
\* exp (clock >= exp), audience, issuer.
JwtVerify(token, secret, clock) ==
    IF token.form # "jwt"
    THEN [ok |-> FALSE, name |-> "JsonWebTokenError", payload |-> Null]
    ELSE IF token.key # secret
    THEN [ok |-> FALSE, name |-> "JsonWebTokenError", payload |-> Null]
    ELSE IF token.nbf # NoClaim /\ token.nbf > clock
    THEN [ok |-> FALSE, name |-> "NotBeforeError", payload |-> Null]
    ELSE IF clock >= token.exp
    THEN [ok |-> FALSE, name |-> "TokenExpiredError", payload |-> Null]
    ELSE IF token.aud # Audience
    THEN [ok |-> FALSE, name |-> "JsonWebTokenError", payload |-> Null]
    ELSE IF token.iss # Issuer
    THEN [ok |-> FALSE, name |-> "JsonWebTokenError", payload |-> Null]
    ELSE [ok |-> TRUE, name |-> "", payload |-> Payload(token)]

----------------------------------------------------------------------------
(* tokenService *)

\* process.env.JWT_EXPIRE || '15m'
AccessExpiresIn(e) ==
    IF e.JWT_EXPIRE = Unset THEN [n |-> 15, unit |-> "m"] ELSE e.JWT_EXPIRE

\* process.env.JWT_REFRESH_EXPIRE || '30d'
RefreshExpiresIn(e) ==
    IF e.JWT_REFRESH_EXPIRE = Unset THEN [n |-> 30, unit |-> "d"]
    ELSE e.JWT_REFRESH_EXPIRE

generateAccessToken_refreshSecret(userId, e, clock) ==
    JwtSign(userId, "access", clock, e.JWT_REFRESH_SECRET, AccessExpiresIn(e))

generateAccessToken(userId, e, clock) ==
    JwtSign(userId, "access", clock, e.JWT_SECRET, AccessExpiresIn(e))

generateRefreshToken(userId, e, clock) ==
    JwtSign(userId, "refresh", clock, e.JWT_REFRESH_SECRET, RefreshExpiresIn(e))

\* the value verifyAccessToken / verifyRefreshToken return; `expired` is
\* undefined (falsy) where the code does not set it
VResult(valid, error, expired, decoded) ==
    [valid |-> valid, error |-> error, expired |-> expired, decoded |-> decoded]

verifyAccessToken_noTypeCheck(token, e, clock) ==
    LET v == JwtVerify(token, e.JWT_SECRET, clock) IN
    IF v.ok THEN VResult(TRUE, "", FALSE, v.payload)
    ELSE IF v.name = "TokenExpiredError"
    THEN VResult(FALSE, "Token expired", TRUE, Null)
    ELSE IF v.name = "JsonWebTokenError"
    THEN VResult(FALSE, "Invalid token", FALSE, Null)
    ELSE VResult(FALSE, "Token verification failed", FALSE, Null)

verifyAccessToken_lateExpiry(token, e, clock) ==
    LET v == JwtVerify(token, e.JWT_SECRET, clock - 1) IN
    IF v.ok
    THEN IF v.payload.type # "access"
         THEN VResult(FALSE, "Invalid token type", FALSE, Null)
         ELSE VResult(TRUE, "", FALSE, v.payload)
    ELSE IF v.name = "TokenExpiredError"
    THEN VResult(FALSE, "Token expired", TRUE, Null)
    ELSE IF v.name = "JsonWebTokenError"
    THEN VResult(FALSE, "Invalid token", FALSE, Null)
    ELSE VResult(FALSE, "Token verification failed", FALSE, Null)

verifyAccessToken(token, e, clock) ==
    LET v == JwtVerify(token, e.JWT_SECRET, clock) IN
    IF v.ok
    THEN IF v.payload.type # "access"
         THEN VResult(FALSE, "Invalid token type", FALSE, Null)
         ELSE VResult(TRUE, "", FALSE, v.payload)
    ELSE IF v.name = "TokenExpiredError"
    THEN VResult(FALSE, "Token expired", TRUE, Null)
    ELSE IF v.name = "JsonWebTokenError"
    THEN VResult(FALSE, "Invalid token", FALSE, Null)
    ELSE VResult(FALSE, "Token verification failed", FALSE, Null)

verifyRefreshToken(token, e, clock) ==
    LET v == JwtVerify(token, e.JWT_REFRESH_SECRET, clock) IN
    IF v.ok
    THEN IF v.payload.type # "refresh"
         THEN VResult(FALSE, "Invalid token type", FALSE, Null)
         ELSE VResult(TRUE, "", FALSE, v.payload)
    ELSE IF v.name = "TokenExpiredError"
    THEN VResult(FALSE, "Refresh token expired", TRUE, Null)
    ELSE IF v.name = "JsonWebTokenError"
    THEN VResult(FALSE, "Invalid refresh token", FALSE, Null)
    ELSE VResult(FALSE, "Refresh token verification failed", FALSE, Null)

\* jwt.decode: the claims, unverified
decodeToken(token) ==
    IF token.form = "jwt" THEN Payload(token) ELSE Null

generateTokenPair(userId, e, clock) ==
    [accessToken |-> generateAccessToken(userId, e, clock),
     refreshToken |-> generateRefreshToken(userId, e, clock),
     expiresIn |-> 15 * 60,
     tokenType |-> "Bearer"]


----------------------------------------------------------------------------
(* HTTP responses: res.status(status).json({code, message, hint, data}) *)

Response(status, code, message) ==
    [status |-> status, code |-> code, message |-> message, hint |-> "",
     user |-> Null, tokens |-> Null]

NoResponse == [null |-> TRUE]

----------------------------------------------------------------------------
(* The Authorization header: the string prefix \o rest, rest = substring(7)  *)
(* when the prefix is "Bearer ". rest is a token, or text that is no token.  *)

NoHeader == [present |-> FALSE, prefix |-> "", rest |-> [form |-> "empty"]]

HeaderOf(prefix, rest) == [present |-> TRUE, prefix |-> prefix, rest |-> rest]

Bearer(token) == HeaderOf("Bearer ", token)

\* !authHeader: undefined or the empty string
HeaderFalsy(h) == ~h.present \/ (h.prefix = "" /\ h.rest.form = "empty")

\* authHeader.startsWith('Bearer ')
StartsWithBearer(h) == h.prefix = "Bearer "

\* !token || token.trim() === ''
IsBlank(token) == token.form \in {"empty", "spaces"}

----------------------------------------------------------------------------
(* authMiddleware, steps 1-3: everything before the first await.            *)
(* resp is the rejection sent, or NoResponse when the gate goes on to the  *)
(* store lookup with `verification`.                                       *)

GateOutcome(resp, verification) == [resp |-> resp, verification |-> verification]

authMiddleware_sameMessage(h, e, clock) ==
    IF HeaderFalsy(h)
    THEN GateOutcome(Response(401, "NO_TOKEN", "No authorization token provided"), Null)
    ELSE IF ~StartsWithBearer(h)
    THEN GateOutcome(Response(401, "INVALID_FORMAT",
                     "Invalid authorization format. Use: Bearer <token>"), Null)
    ELSE IF IsBlank(h.rest)
    THEN GateOutcome(Response(401, "EMPTY_TOKEN", "Token is empty"), Null)
    ELSE LET verification == verifyAccessToken(h.rest, e, clock) IN
         IF ~verification.valid
         THEN IF verification.expired
              THEN GateOutcome(Response(401, "TOKEN_EXPIRED",
                       "Token has expired. Please refresh your token."), verification)
              ELSE GateOutcome(Response(401, "INVALID_TOKEN", "Invalid token"),
                               verification)
         ELSE GateOutcome(NoResponse, verification)

\* the gate testing the prefix before the presence of the header
authMiddleware_verify_formatFirst(h, e, clock) ==
    IF ~StartsWithBearer(h)
    THEN GateOutcome(Response(401, "INVALID_FORMAT",
                     "Invalid authorization format. Use: Bearer <token>"), Null)
    ELSE IF HeaderFalsy(h)
    THEN GateOutcome(Response(401, "NO_TOKEN", "No authorization token provided"), Null)
    ELSE IF IsBlank(h.rest)
    THEN GateOutcome(Response(401, "EMPTY_TOKEN", "Token is empty"), Null)
    ELSE LET verification == verifyAccessToken(h.rest, e, clock) IN
         IF ~verification.valid
         THEN IF verification.expired
              THEN GateOutcome(Response(401, "TOKEN_EXPIRED",
                       "Token has expired. Please refresh your token."), verification)
              ELSE GateOutcome(Response(401, "INVALID_TOKEN",
                       IF verification.error # "" THEN verification.error
                       ELSE "Invalid token"), verification)
         ELSE GateOutcome(NoResponse, verification)

authMiddleware_verify(h, e, clock) ==
    IF HeaderFalsy(h)
    THEN GateOutcome(Response(401, "NO_TOKEN", "No authorization token provided"), Null)
    ELSE IF ~StartsWithBearer(h)
    THEN GateOutcome(Response(401, "INVALID_FORMAT",
                     "Invalid authorization format. Use: Bearer <token>"), Null)
    ELSE IF IsBlank(h.rest)
    THEN GateOutcome(Response(401, "EMPTY_TOKEN", "Token is empty"), Null)
    ELSE LET verification == verifyAccessToken(h.rest, e, clock) IN
         IF ~verification.valid
         THEN IF verification.expired
              THEN GateOutcome(Response(401, "TOKEN_EXPIRED",
                       "Token has expired. Please refresh your token."), verification)
              ELSE GateOutcome(Response(401, "INVALID_TOKEN",
                       IF verification.error # "" THEN verification.error
                       ELSE "Invalid token"), verification)
         ELSE GateOutcome(NoResponse, verification)

----------------------------------------------------------------------------
(* refreshToken (controller), up to its first await. body.refreshToken is  *)
(* a token, or absent / the empty string (form "empty").                   *)

\* a refresh that answers every failed verification with the same code
refreshToken_verify_oneCode(rt, e, clock) ==
    IF rt.form = "empty"
    THEN GateOutcome(Response(400, "NO_REFRESH_TOKEN", "Refresh token is required"),
                     Null)
    ELSE LET verification == verifyRefreshToken(rt, e, clock) IN
         IF ~verification.valid
         THEN GateOutcome(Response(401, "INVALID_REFRESH_TOKEN",
                       IF verification.error # "" THEN verification.error
                       ELSE "Invalid refresh token"), verification)
         ELSE GateOutcome(NoResponse, verification)

\* STEP 1 of refreshToken and its two rejections of the token
refreshToken_verify(rt, e, clock) ==
    IF rt.form = "empty"
    THEN GateOutcome(Response(400, "NO_REFRESH_TOKEN", "Refresh token is required"),
                     Null)
    ELSE LET verification == verifyRefreshToken(rt, e, clock) IN
         IF ~verification.valid
         THEN IF verification.expired
              THEN GateOutcome(Response(401, "REFRESH_TOKEN_EXPIRED",
                       "Refresh token expired. Please login again."), verification)
              ELSE GateOutcome(Response(401, "INVALID_REFRESH_TOKEN",
                       IF verification.error # "" THEN verification.error
                       ELSE "Invalid refresh token"), verification)
         ELSE GateOutcome(NoResponse, verification)

----------------------------------------------------------------------------
(* Configuration: read from process.env at every call, never written *)

ExpireChoices == {Unset} \cup {[n |-> k, unit |-> "s"] : k \in 1..MaxExpire}

Envs ==
    [JWT_SECRET : {"k1"}, JWT_REFRESH_SECRET : {"k1", "k2"},
     JWT_EXPIRE : ExpireChoices, JWT_REFRESH_EXPIRE : ExpireChoices]

----------------------------------------------------------------------------
(* Token strings a client can present *)

Garbage == [form |-> "garbage"]
EmptyString == [form |-> "empty"]
Spaces == [form |-> "spaces"]

\* every signed-claims string over the model's claim values, whoever signed it
AnyTokens ==
    [form : {"jwt"}, userId : Ids, type : {"access", "refresh", "other"},
     iat : {0}, exp : 1..MaxTime, nbf : {NoClaim, MaxTime},
     iss : {Issuer, "other-api"}, aud : {Audience, "other-client"},
     key : Keys]
    \cup {Garbage}

----------------------------------------------------------------------------
(* The store and the request slots, before any request *)

NoDoc == [null |-> TRUE]

Slots == {1, 2}

Idle == [route |-> "idle", pc |-> "idle"]

NoBench ==
    [token |-> Garbage, origin |-> "none", sub |-> 0,
     access |-> Null, refresh |-> Null, caller |-> "none", out |-> Null]

----------------------------------------------------------------------------
(* Token service bench: one token, issued by the service or made by a      *)
(* client, and the service applied to it as the clock advances. The bench  *)
(* holds the answers of the last calls made at the current clock time:     *)
(* the two verifiers' results, or one caller's outcome.                    *)

Fresh(token, origin, sub) ==
    [token |-> token, origin |-> origin, sub |-> sub,
     access |-> Null, refresh |-> Null, caller |-> "none", out |-> Null]

\* the service issues an access token for user id
TokIssueAccess(id) ==
    /\ tk.origin = "none"
    /\ tk' = Fresh(generateAccessToken(id, env, now), "access", id)
    /\ UNCHANGED <<env, now, sysvars>>

\* the service issues a refresh token for user id
TokIssueRefresh(id) ==
    /\ tk.origin = "none"
    /\ tk' = Fresh(generateRefreshToken(id, env, now), "refresh", id)
    /\ UNCHANGED <<env, now, sysvars>>

\* a client presents a token string of its own making
TokPresent(t) ==
    /\ tk.origin = "none"
    /\ tk' = Fresh(t, "client", 0)
    /\ UNCHANGED <<env, now, sysvars>>

TokTick ==
    /\ now < MaxTime
    /\ now' = now + 1
    /\ tk' = Fresh(tk.token, tk.origin, tk.sub)
    /\ UNCHANGED <<env, sysvars>>

TokVerifyAccess ==
    /\ tk.origin # "none"
    /\ tk' = [tk EXCEPT !.access = verifyAccessToken(tk.token, env, now),
                        !.caller = "none", !.out = Null]
    /\ UNCHANGED <<env, now, sysvars>>

TokVerifyRefresh ==
    /\ tk.origin # "none"
    /\ tk' = [tk EXCEPT !.refresh = verifyRefreshToken(tk.token, env, now),
                        !.caller = "none", !.out = Null]
    /\ UNCHANGED <<env, now, sysvars>>

\* the auth gate's answer to "Authorization: Bearer <token>"
TokGate ==
    /\ tk.origin # "none"
    /\ tk' = [tk EXCEPT !.access = Null, !.refresh = Null, !.caller = "gate",
                        !.out = authMiddleware_verify(Bearer(tk.token), env, now)]
    /\ UNCHANGED <<env, now, sysvars>>

\* POST /refresh's answer to {refreshToken: <token>}
TokRefresh ==
    /\ tk.origin # "none"
    /\ tk' = [tk EXCEPT !.access = Null, !.refresh = Null, !.caller = "refresh",
                        !.out = refreshToken_verify(tk.token, env, now)]
    /\ UNCHANGED <<env, now, sysvars>>

InitTok ==
    /\ env \in Envs
    /\ now = 0
    /\ users = [i \in Ids |-> NoDoc]
    /\ req = [s \in Slots |-> Idle]
    /\ left = 0
    /\ issued = {}
    /\ tk = NoBench

NextTok ==
    \/ \E id \in Ids : TokIssueAccess(id)
    \/ \E id \in Ids : TokIssueRefresh(id)
    \/ \E t \in AnyTokens : TokPresent(t)
    \/ TokTick
    \/ TokVerifyAccess
    \/ TokVerifyRefresh
    \/ TokGate
    \/ TokRefresh

SpecTok == InitTok /\ [][NextTok]_vars

----------------------------------------------------------------------------
(* Properties of the token service (checked under SpecTok) *)

\* the failure taxonomy of a verification result
IsValid(r) == r.valid /\ ~r.expired /\ ~IsNull(r.decoded)
IsExpired(r) == ~r.valid /\ r.expired
IsWrongTokenType(r) == ~r.valid /\ ~r.expired /\ r.error = "Invalid token type"
IsMalformed(r) ==
    ~r.valid /\ ~r.expired /\ r.error \in {"Invalid token", "Invalid refresh token"}
IsVerificationFailed(r) ==
    /\ ~r.valid /\ ~r.expired
    /\ r.error \in {"Token verification failed", "Refresh token verification failed"}

Kinds(r) ==
    {k \in {"Valid", "Expired", "Malformed", "WrongTokenType", "VerificationFailed"} :
        CASE k = "Valid" -> IsValid(r)
          [] k = "Expired" -> IsExpired(r)
          [] k = "Malformed" -> IsMalformed(r)
          [] k = "WrongTokenType" -> IsWrongTokenType(r)
          [] k = "VerificationFailed" -> IsVerificationFailed(r)}

IssuedAccess == tk.origin = "access"
IssuedRefresh == tk.origin = "refresh"
AccessRan == ~IsNull(tk.access)
RefreshRan == ~IsNull(tk.refresh)

\* C6 (as claimed): an unexpired refresh token the service issued, given to
\* verifyAccessToken, is rejected as WrongTokenType ('Invalid token type'),
\* and an unexpired issued access token given to verifyRefreshToken likewise.
C6_WrongTypeReported ==
    /\ (IssuedRefresh /\ AccessRan /\ now < tk.token.exp)
          => IsWrongTokenType(tk.access)
    /\ (IssuedAccess /\ RefreshRan /\ now < tk.token.exp)
          => IsWrongTokenType(tk.refresh)

\* C7: no token is accepted by both verifyAccessToken and verifyRefreshToken,
\* whatever the two secrets are (equal or distinct).
C7_NeverBothValid ==
    (AccessRan /\ RefreshRan) => ~(tk.access.valid /\ tk.refresh.valid)

\* C7 witness: with both secrets equal, a token is accepted as an access token
\* and both verifiers have answered.
C7_Witness ==
    /\ env.JWT_SECRET = env.JWT_REFRESH_SECRET
    /\ AccessRan /\ RefreshRan
    /\ tk.access.valid /\ ~tk.refresh.valid

\* C8: a token the service issued for id, verified by the verifier of its own
\* variant before its expiry, is valid and decodes to userId = id.
C8_RoundTrip ==
    /\ (IssuedAccess /\ AccessRan /\ now < tk.token.exp)
          => (tk.access.valid /\ tk.access.decoded.userId = tk.sub
                /\ tk.access.decoded.type = "access")
    /\ (IssuedRefresh /\ RefreshRan /\ now < tk.token.exp)
          => (tk.refresh.valid /\ tk.refresh.decoded.userId = tk.sub
                /\ tk.refresh.decoded.type = "refresh")

\* C8 witness: with a configured expiry, an access token issued for user 2
\* is verified later than it was issued and before its expiry, as valid.
C8_Witness ==
    /\ IssuedAccess /\ AccessRan /\ tk.sub = 2
    /\ env.JWT_EXPIRE # Unset
    /\ tk.token.iat < now /\ now < tk.token.exp /\ tk.access.valid

\* a token signed with this secret that carries no nbf claim
SignedWith(token, secret) ==
    token.form = "jwt" /\ token.key = secret /\ token.nbf = NoClaim

GateKindOf(resp) ==
    CASE resp.code = "TOKEN_EXPIRED" -> "Expired"
      [] resp.code = "INVALID_TOKEN" /\ resp.message = "Invalid token" -> "Malformed"
      [] resp.code = "INVALID_TOKEN" /\ resp.message = "Invalid token type"
            -> "WrongTokenType"
      [] resp.code = "INVALID_TOKEN" /\ resp.message = "Token verification failed"
            -> "VerificationFailed"
      [] OTHER -> "none"

RefreshKindOf(resp) ==
    CASE resp.code = "REFRESH_TOKEN_EXPIRED" -> "Expired"
      [] resp.code = "INVALID_REFRESH_TOKEN" /\ resp.message = "Invalid refresh token"
            -> "Malformed"
      [] resp.code = "INVALID_REFRESH_TOKEN" /\ resp.message = "Invalid token type"
            -> "WrongTokenType"
      [] resp.code = "INVALID_REFRESH_TOKEN"
           /\ resp.message = "Refresh token verification failed"
            -> "VerificationFailed"
      [] OTHER -> "none"

\* C10 (as claimed): every result of verifyAccessToken / verifyRefreshToken is
\* exactly one of Valid, Expired, Malformed/BadSignature, WrongTokenType.
C10_FourKinds ==
    /\ AccessRan => Cardinality(Kinds(tk.access) \ {"VerificationFailed"}) = 1
    /\ RefreshRan => Cardinality(Kinds(tk.refresh) \ {"VerificationFailed"}) = 1

\* C10 (amended): every result is exactly one of Valid, Expired,
\* Malformed/BadSignature, WrongTokenType or the generic VerificationFailed
\* (any other error of the library, e.g. a token not yet active); the auth
\* gate and refresh answer each failure kind with a response that differs
\* from the responses to the other kinds.
C10_FailureTaxonomy ==
    /\ AccessRan => Cardinality(Kinds(tk.access)) = 1
    /\ RefreshRan => Cardinality(Kinds(tk.refresh)) = 1
    /\ tk.caller = "gate" =>
          /\ Cardinality(Kinds(tk.out.verification)) = 1
          /\ ~tk.out.verification.valid =>
                /\ tk.out.resp.status = 401
                /\ Kinds(tk.out.verification) = {GateKindOf(tk.out.resp)}
    /\ tk.caller = "refresh" =>
          /\ Cardinality(Kinds(tk.out.verification)) = 1
          /\ ~tk.out.verification.valid =>
                /\ tk.out.resp.status = 401
                /\ Kinds(tk.out.verification) = {RefreshKindOf(tk.out.resp)}

\* C10 witness: the gate has answered a token of the wrong type, which passed
\* the signature check, with the 'Invalid token type' response.
C10_Witness ==
    /\ tk.caller = "gate"
    /\ IsWrongTokenType(tk.out.verification)
    /\ tk.out.resp.message = "Invalid token type"

----------------------------------------------------------------------------
(* models/User: the schema, the pre-save hook and the document methods *)

MaxReqs == 2        \* requests accepted in one run

Emails == {"a@x.com", "b@x.com"}

\* raw passwords (strings), as a request body carries them
Passwords == {<<"Pass1234">>, <<"Word5678">>}

\* lastLogin: null
NoDate == 0 - 1

\* a path left out of a query result (select: false / select('-password'))
NotSelected == <<>>

\* a document that was deleted: its _id is never given out again
Gone == [null |-> TRUE, gone |-> TRUE]

\* passwords longer than bcrypt's 72-byte input (the register schema allows
\* 128 characters): the first 72 bytes, then the rest
LongPasswords ==
    {<<"Pass1234-and-64-more-bytes", "Tail-A">>,
     <<"Pass1234-and-64-more-bytes", "Tail-B">>}

\* the bytes of the password that bcrypt reads: the first 72
bcryptInput(password) == <<Head(password)>>

\* bcrypt.hash(password, salt) with bcrypt.genSalt(12)
bcryptHash(password) == <<"$2a$12$">> \o bcryptInput(password)

\* bcrypt.compare(candidate, hash)
bcryptCompare(candidate, hash) == hash = bcryptHash(candidate)

\* email strings as clients type them: the two addresses of the model, and
\* one of them in other letter case, with surrounding blanks, and both; a
\* string that is no address
RawEmails ==
    Emails \cup {"A@X.com", " a@x.com ", " A@x.COM ", "A@x.COM", " a@x.com", "nobody"}

\* String.prototype.trim on the model's strings
trim(str) ==
    CASE str \in {" a@x.com ", " a@x.com"} -> "a@x.com"
      [] str = " A@x.COM " -> "A@x.COM"
      [] OTHER -> str

\* a lowercasing that leaves every string as it is
toLowerCase_identity(str) == str

\* String.prototype.toLowerCase on the model's strings
toLowerCase(str) ==
    CASE str \in {"A@X.com", "A@x.COM"} -> "a@x.com"
      [] str = " A@x.COM " -> " a@x.com "
      [] OTHER -> str

\* the setters of the schema's email path (lowercase: true, trim: true), run
\* on documents and on query filters
castEmail(email) == trim(toLowerCase(email))

\* a password the register schema turns down and PUT /password lets through
ShortPassword == <<"abc">>

\* the characters of the strings the model's passwords are made of
ChunkLength(chunk) ==
    CASE chunk = "abc" -> 3
      [] chunk \in {"Pass1234", "Word5678"} -> 8
      [] chunk = "password1" -> 9
      [] chunk = "Pass1234-and-64-more-bytes" -> 72
      [] OTHER -> 6

RECURSIVE PasswordLength(_)
PasswordLength(password) ==
    IF password = <<>> THEN 0
    ELSE ChunkLength(Head(password)) + PasswordLength(Tail(password))

\* the schema's validators of the password path, run by save() on a modified
\* password before the pre-save hook: required, minlength 8
validatePassword(password) == PasswordLength(password) >= 8

\* userSchema.pre('save'): hash the password if it was modified
preSave(doc, modified) ==
    IF "password" \notin modified THEN doc
    ELSE [doc EXCEPT !.password = bcryptHash(doc.password)]

\* user.comparePassword(candidatePassword)
comparePassword(doc, candidatePassword) ==
    bcryptCompare(candidatePassword, doc.password)

\* a view that keeps every path of the document
toSafeObject_withPassword(doc) == doc

\* user.toSafeObject(): the document without password and devices
toSafeObject(doc) == [f \in DOMAIN doc \ {"password", "devices"} |-> doc[f]]

\* new User({email, password, name, role, isEmailVerified}) with the schema's
\* defaults for the other paths
NewUser(id, email, password, name, role, isEmailVerified) ==
    [_id |-> id, email |-> castEmail(email), password |-> password, name |-> name,
     role |-> role, isEmailVerified |-> isEmailVerified, lastLogin |-> NoDate,
     devices |-> <<>>, isActive |-> TRUE]

----------------------------------------------------------------------------
(* The users collection *)

IsDoc(d) == ~IsNull(d)

\* a schema whose password path is selected by default
WithoutPassword_selected(doc) == doc

\* .select('-password') and the schema's select: false
WithoutPassword(doc) == [doc EXCEPT !.password = NotSelected]

\* a lookup that finds nothing: register without its pre-check
FindOne_blind(coll, email) == Null

\* User.findOne({ email }): password is not selected
FindOne(coll, email) ==
    LET hit == {i \in Ids : IsDoc(coll[i]) /\ coll[i].email = castEmail(email)} IN
    IF hit = {} THEN Null
    ELSE WithoutPassword(coll[CHOOSE i \in hit : TRUE])

\* User.findOne({ email }).select('+password')
FindOneWithPassword(coll, email) ==
    LET hit == {i \in Ids : IsDoc(coll[i]) /\ coll[i].email = castEmail(email)} IN
    IF hit = {} THEN Null ELSE coll[CHOOSE i \in hit : TRUE]

\* User.findById(id).select('-password') and User.findById(id)
FindById(coll, id) ==
    IF id \in Ids /\ IsDoc(coll[id]) THEN WithoutPassword(coll[id]) ELSE Null

\* a collection whose email path has no unique index
DuplicateKey_noIndex(coll, email) == FALSE

\* the unique index on email: would inserting this email conflict (E11000)?
DuplicateKey(coll, email) ==
    \E i \in Ids : IsDoc(coll[i]) /\ coll[i].email = castEmail(email)

\* ids never used: a new document gets the first of them
FreeIds(coll) == {i \in Ids : coll[i] = NoDoc}
NewId(coll) == CHOOSE i \in FreeIds(coll) : \A j \in FreeIds(coll) : i <= j

\* a save that writes every path of the document as the request holds it
SavePaths_everyPath(coll, doc, paths) == [coll EXCEPT ![doc._id] = doc]

\* doc.save() of an existing document: writes the modified paths only
SavePaths(coll, doc, paths) ==
    [coll EXCEPT ![doc._id] = [f \in DOMAIN @ |-> IF f \in paths THEN doc[f] ELSE @[f]]]

----------------------------------------------------------------------------
(* Request contexts *)

NoBody == [email |-> "", password |-> <<>>, name |-> ""]

\* a request as Express hands it to the first handler of its route
NewReq(route, pc, header, body) ==
    [route |-> route, pc |-> pc, header |-> header, body |-> body,
     verification |-> Null,    \* const verification
     doc |-> Null,             \* const user (the document loaded)
     tokens |-> Null,          \* const tokens
     user |-> Null,            \* req.user
     userId |-> 0,             \* req.userId
     token |-> Null,           \* req.token
     nexts |-> 0,              \* calls of next() by the route's first middleware
     guardNexts |-> 0,         \* calls of next() by the route's second middleware
     sent |-> <<>>,            \* responses sent, in order
     threw |-> FALSE,          \* a store call of this request failed
     compared |-> FALSE,       \* user.comparePassword was called
     secretAtSave |-> <<>>,    \* the stored secret its lastLogin save met
     raw |-> "",               \* the email of the body as the client sent it
     ticket |-> 0,             \* requests the process still accepts after it
     peers |-> {},             \* slots that were in flight when it arrived
     taken |-> {}]             \* emails the collection held when it arrived

InFlight(r) == r.pc \notin {"idle", "done"}

\* res.status(..).json(..): the handler returns
Send(r, resp) == [r EXCEPT !.pc = "done", !.sent = Append(@, resp)]

\* a request is accepted in a slot whose previous request has been answered
Arrive(s, r) ==
    /\ ~InFlight(req[s])
    /\ left > 0
    /\ left' = left - 1
    /\ req' = [req EXCEPT ![s] =
                 [r EXCEPT !.ticket = left - 1,
                           !.peers = {t \in Slots \ {s} : InFlight(req[t])},
                           !.taken = {users[i].email : i \in {j \in Ids : IsDoc(users[j])}}]]

\* the pair's two tokens reach the client with the response
TokensOf(resp) ==
    IF IsNull(resp.tokens) THEN {}
    ELSE {resp.tokens.accessToken, resp.tokens.refreshToken}

----------------------------------------------------------------------------
(* middleware/validationMiddleware and utils/validators: the body of        *)
(* POST /register and POST /login on its way to the handler                *)

\* sanitizeString on an email string: no tags to remove, then trim
sanitizeString(str) == trim(str)

\* zod's email check (case-insensitive, no blanks) on the model's strings
IsEmail(str) == str \in {"a@x.com", "b@x.com", "A@X.com", "A@x.COM"}

\* z.string().email().trim().toLowerCase(): the checks run in this order
validateRequest(email) ==
    IF ~IsEmail(email) THEN [success |-> FALSE, data |-> ""]
    ELSE [success |-> TRUE, data |-> toLowerCase(trim(email))]

ValidationFailed == Response(400, "", "Validation failed")

\* sanitizeInput, validate(schema): the email the handler finds in req.body
BodyEmail(rawEmail) == validateRequest(sanitizeString(rawEmail))

\* a password of lower-case letters and a digit, and the empty string
WeakPassword == <<"password1">>
NoPassword == <<>>

\* names as clients send them: one the register schema accepts, one too short
Names == {"Ann", "A"}

NameLength(name) ==
    CASE name = "Ann" -> 3
      [] name = "A" -> 1
      [] OTHER -> 0

\* /^(?=.*[a-z])(?=.*[A-Z])(?=.*\d)/ on the model's passwords
HasLowerUpperDigit(password) ==
    /\ password # <<>>
    /\ Head(password) \in {"Pass1234", "Word5678", "Pass1234-and-64-more-bytes"}

\* sanitizeObject(req.body): sanitizeString on every string of the body (the
\* model's passwords and names hold no tags and no surrounding blanks)
sanitizeObject(body) == [body EXCEPT !.email = sanitizeString(@)]

\* a register schema that checks the email only
registerSchema_emailOnly(body) ==
    LET email == validateRequest(body.email) IN
    IF email.success
    THEN [success |-> TRUE, data |-> [body EXCEPT !.email = email.data]]
    ELSE [success |-> FALSE, data |-> body]

\* validateRequest(registerSchema, body): email, password (8..128
\* characters, a lower-case letter, an upper-case letter and a digit) and
\* name (2..50 characters)
registerSchema(body) ==
    LET email == validateRequest(body.email) IN
    IF /\ email.success
       /\ PasswordLength(body.password) >= 8
       /\ PasswordLength(body.password) <= 128
       /\ HasLowerUpperDigit(body.password)
       /\ NameLength(body.name) >= 2
       /\ NameLength(body.name) <= 50
    THEN [success |-> TRUE, data |-> [body EXCEPT !.email = email.data]]
    ELSE [success |-> FALSE, data |-> body]

\* validateRequest(loginSchema, body): email and a password of at least one
\* character
loginSchema(body) ==
    LET email == validateRequest(body.email) IN
    IF email.success /\ PasswordLength(body.password) >= 1
    THEN [success |-> TRUE, data |-> [body EXCEPT !.email = email.data]]
    ELSE [success |-> FALSE, data |-> body]

\* validate(schema): the 400 answer, or the request goes on to the handler
\* at `pc` with req.body replaced by the validated data
validate(r, validation, pc) ==
    IF ~validation.success THEN Send(r, ValidationFailed)
    ELSE [r EXCEPT !.body = validation.data, !.pc = pc]

----------------------------------------------------------------------------
(* controllers/authController: register (POST /register) *)

\* the request reaches register with its validated body; the handler runs up
\* to `await User.findOne({ email })`
register_start(s, email, password) ==
    /\ Cardinality(FreeIds(users)) >
          Cardinality({t \in Slots : req[t].route = "register" /\ InFlight(req[t])})
    /\ Arrive(s, NewReq("register", "register_findOne", NoHeader,
                        [email |-> email, password |-> password, name |-> "Ann"]))
    /\ UNCHANGED <<env, now, users, issued, tk>>

\* a catch block that takes every error for the uniqueness conflict
register_catch_allConflicts(error) ==
    Response(409, "DUPLICATE_EMAIL", "Email already registered")

\* the catch block of register
register_catch(error) ==
    IF error = "E11000"
    THEN Response(409, "DUPLICATE_EMAIL", "Email already registered")
    ELSE Response(500, "REGISTRATION_ERROR", "Registration failed due to server error")

\* STEP 1: the pre-check answers, or the handler goes on to User.create
register_findOne(s, fails) ==
    LET r == req[s]
        existingUser == FindOne(users, r.body.email)
    IN  /\ r.pc = "register_findOne"
        /\ req' = [req EXCEPT ![s] =
              IF fails THEN Send([r EXCEPT !.threw = TRUE], register_catch("MongoError"))
              ELSE IF ~IsNull(existingUser)
              THEN Send(r, [Response(409, "EMAIL_EXISTS", "Email already registered")
                              EXCEPT !.hint = "Try logging in or use a different email"])
              ELSE [r EXCEPT !.pc = "register_create"]]
        /\ UNCHANGED <<env, now, users, left, issued, tk>>

\* STEP 2-6: User.create inserts under the unique index; then the token pair
\* and the 201 response
register_create(s, fails) ==
    LET r == req[s]
        user == preSave(NewUser(NewId(users), r.body.email, r.body.password,
                                r.body.name, "user", FALSE), {"password"})
        tokens == generateTokenPair(user._id, env, now)
        created == [Response(201, "", "User registered successfully")
                      EXCEPT !.user = toSafeObject(user), !.tokens = tokens]
    IN  /\ r.pc = "register_create"
        /\ IF fails
           THEN /\ req' = [req EXCEPT ![s] =
                      Send([r EXCEPT !.threw = TRUE], register_catch("MongoError"))]
                /\ UNCHANGED <<users, issued>>
           ELSE IF DuplicateKey(users, r.body.email)
           THEN /\ req' = [req EXCEPT ![s] = Send(r, register_catch("E11000"))]
                /\ UNCHANGED <<users, issued>>
           ELSE /\ users' = [users EXCEPT ![user._id] = user]
                /\ req' = [req EXCEPT ![s] =
                      Send([r EXCEPT !.doc = user, !.tokens = tokens], created)]
                /\ issued' = issued \cup TokensOf(created)
        /\ UNCHANGED <<env, now, left, tk>>

\* POST /register as the router runs it: sanitizeInput,
\* validate(registerSchema), register
register_route(s, rawEmail, password, name) ==
    LET body == sanitizeObject([email |-> rawEmail, password |-> password,
                                name |-> name])
        r == [NewReq("register", "validate", NoHeader, body) EXCEPT !.raw = rawEmail]
    IN  /\ Cardinality(FreeIds(users)) >
              Cardinality({t \in Slots : req[t].route = "register" /\ InFlight(req[t])})
        /\ Arrive(s, validate(r, registerSchema(body), "register_findOne"))
        /\ UNCHANGED <<env, now, users, issued, tk>>

----------------------------------------------------------------------------
(* controllers/authController: login (POST /login) *)

login_start(s, email, password) ==
    /\ Arrive(s, NewReq("login", "login_findOne", NoHeader,
                        [email |-> email, password |-> password, name |-> ""]))
    /\ UNCHANGED <<env, now, users, issued, tk>>

\* POST /login as the router runs it: sanitizeInput, validate(loginSchema),
\* login
login_route(s, rawEmail, password) ==
    LET body == sanitizeObject([email |-> rawEmail, password |-> password,
                                name |-> ""])
        r == [NewReq("login", "validate", NoHeader, body) EXCEPT !.raw = rawEmail]
    IN  /\ Arrive(s, validate(r, loginSchema(body), "login_findOne"))
        /\ UNCHANGED <<env, now, users, issued, tk>>

\* a login that answers an unknown email differently from a wrong password
login_check_tellsUnknown(user, password) ==
    IF IsNull(user)
    THEN Response(404, "USER_NOT_FOUND", "No account with this email")
    ELSE IF ~user.isActive
    THEN Response(403, "ACCOUNT_DEACTIVATED",
                  "Account is deactivated. Please contact support.")
    ELSE IF ~comparePassword(user, password)
    THEN Response(401, "INVALID_CREDENTIALS", "Invalid email or password")
    ELSE NoResponse

\* a login that compares the password before it tests isActive
login_check_passwordFirst(user, password) ==
    IF IsNull(user)
    THEN Response(401, "INVALID_CREDENTIALS", "Invalid email or password")
    ELSE IF ~comparePassword(user, password)
    THEN Response(401, "INVALID_CREDENTIALS", "Invalid email or password")
    ELSE IF ~user.isActive
    THEN Response(403, "ACCOUNT_DEACTIVATED",
                  "Account is deactivated. Please contact support.")
    ELSE NoResponse

\* STEP 1-3 of login: the rejection, or NoResponse when the credentials hold
login_check(user, password) ==
    IF IsNull(user)
    THEN Response(401, "INVALID_CREDENTIALS", "Invalid email or password")
    ELSE IF ~user.isActive
    THEN Response(403, "ACCOUNT_DEACTIVATED",
                  "Account is deactivated. Please contact support.")
    ELSE IF ~comparePassword(user, password)
    THEN Response(401, "INVALID_CREDENTIALS", "Invalid email or password")
    ELSE NoResponse

\* is `await user.comparePassword(password)` reached: the user was found
\* and is active
login_compares(user) == ~IsNull(user) /\ user.isActive

\* a login that stamps lastLogin on the account it turns down
login_findOne_stamping(s, fails) ==
    LET r == req[s]
        user == FindOneWithPassword(users, r.body.email)
        rejection == login_check(user, r.body.password)
    IN  /\ r.pc = "login_findOne"
        /\ req' = [req EXCEPT ![s] =
              IF fails
              THEN Send([r EXCEPT !.threw = TRUE],
                        Response(500, "LOGIN_ERROR", "Login failed due to server error"))
              ELSE IF rejection # NoResponse
              THEN Send([r EXCEPT !.doc = user, !.compared = login_compares(user)],
                        rejection)
              ELSE [r EXCEPT !.doc = [user EXCEPT !.lastLogin = now],
                             !.compared = login_compares(user),
                             !.tokens = generateTokenPair(user._id, env, now),
                             !.pc = "login_save"]]
        /\ users' = IF ~fails /\ ~IsNull(user) /\ rejection # NoResponse
                    THEN [users EXCEPT ![user._id].lastLogin = now]
                    ELSE users
        /\ UNCHANGED <<env, now, left, issued, tk>>

\* User.findOne returns; STEP 2-5 up to `await user.save()`
login_findOne(s, fails) ==
    LET r == req[s]
        user == FindOneWithPassword(users, r.body.email)
        rejection == login_check(user, r.body.password)
    IN  /\ r.pc = "login_findOne"
        /\ req' = [req EXCEPT ![s] =
              IF fails
              THEN Send([r EXCEPT !.threw = TRUE],
                        Response(500, "LOGIN_ERROR", "Login failed due to server error"))
              ELSE IF rejection # NoResponse
              THEN Send([r EXCEPT !.doc = user, !.compared = login_compares(user)],
                        rejection)
              ELSE [r EXCEPT !.doc = [user EXCEPT !.lastLogin = now],
                             !.compared = login_compares(user),
                             !.tokens = generateTokenPair(user._id, env, now),
                             !.pc = "login_save"]]
        /\ UNCHANGED <<env, now, users, left, issued, tk>>

\* user.save() returns; STEP 6-8
login_save(s, fails) ==
    LET r == req[s]
        ok == [Response(200, "", "Login successful")
                 EXCEPT !.user = toSafeObject(r.doc), !.tokens = r.tokens]
    IN  /\ r.pc = "login_save"
        /\ IF fails \/ ~IsDoc(users[r.doc._id])
           THEN /\ req' = [req EXCEPT ![s] =
                      Send([r EXCEPT !.threw = TRUE],
                           Response(500, "LOGIN_ERROR", "Login failed due to server error"))]
                /\ UNCHANGED <<users, issued>>
           ELSE /\ users' = SavePaths(users, preSave(r.doc, {"lastLogin"}), {"lastLogin"})
                /\ req' = [req EXCEPT ![s] =
                      Send([r EXCEPT !.secretAtSave = users[r.doc._id].password], ok)]
                /\ issued' = issued \cup TokensOf(ok)
        /\ UNCHANGED <<env, now, left, tk>>

----------------------------------------------------------------------------
(* middleware/authMiddleware and the protected routes GET /me, POST /logout *)

GatedRoutes == {"me", "logout"}

\* token strings of a client's own making: no JWT, and a JWT signed with a
\* key that is neither secret
ClientTokens ==
    {Garbage,
     [form |-> "jwt", userId |-> 1, type |-> "access", iat |-> 0, exp |-> MaxTime + 1,
      nbf |-> NoClaim, iss |-> Issuer, aud |-> Audience, key |-> "kx"]}

\* the Authorization headers a client can send: none, the empty string,
\* another scheme (with and without a credential), a blank token, a token it
\* was sent, a token it made
Headers(tokens) ==
    {NoHeader, HeaderOf("", EmptyString), HeaderOf("Basic ", Garbage),
     HeaderOf("Basic ", Spaces), HeaderOf("Bearer ", Spaces)}
    \cup {Bearer(t) : t \in tokens \cup ClientTokens}

\* STEP 1-3: the request arrives and the gate runs up to
\* `await User.findById(userId)`
authMiddleware_start(s, route, h) ==
    LET o == authMiddleware_verify(h, env, now)
        r == [NewReq(route, "authMiddleware_findById", h, NoBody)
                EXCEPT !.verification = o.verification]
    IN  /\ Arrive(s, IF o.resp # NoResponse THEN Send(r, o.resp) ELSE r)
        /\ UNCHANGED <<env, now, users, issued, tk>>

\* STEP 5 without the isActive test
authMiddleware_resolve_ignoreActive(user) ==
    IF IsNull(user)
    THEN Response(401, "USER_NOT_FOUND", "User not found. Account may have been deleted.")
    ELSE NoResponse

\* STEP 5 with the two rejections exchanged
authMiddleware_resolve_swapped(user) ==
    IF IsNull(user)
    THEN Response(403, "ACCOUNT_DEACTIVATED",
                  "Account is deactivated. Please contact support.")
    ELSE IF ~user.isActive
    THEN Response(401, "USER_NOT_FOUND", "User not found. Account may have been deleted.")
    ELSE NoResponse

\* STEP 5: the rejection for the user looked up, or NoResponse
authMiddleware_resolve(user) ==
    IF IsNull(user)
    THEN Response(401, "USER_NOT_FOUND", "User not found. Account may have been deleted.")
    ELSE IF ~user.isActive
    THEN Response(403, "ACCOUNT_DEACTIVATED",
                  "Account is deactivated. Please contact support.")
    ELSE NoResponse

GateError == Response(500, "AUTH_ERROR", "Authentication failed due to server error")

\* a gate without the catch block: the fault leaves the middleware and no
\* response is sent by it
authMiddleware_catch_rethrow(r) == [r EXCEPT !.threw = TRUE, !.pc = "done"]

\* a catch block that logs the fault and neither answers nor calls next()
authMiddleware_catch_silent(r) == [r EXCEPT !.threw = TRUE, !.pc = "hung"]

\* a catch block that answers and then calls next()
authMiddleware_catch_andNext(r) ==
    [Send([r EXCEPT !.threw = TRUE], GateError) EXCEPT !.nexts = @ + 1]

\* catch (error): the fault of a store call is answered by the gate
authMiddleware_catch(r) == Send([r EXCEPT !.threw = TRUE], GateError)

\* User.findById returns; STEP 5-7 up to `await user.save()`
authMiddleware_findById(s, fails) ==
    LET r == req[s]
        userId == r.verification.decoded.userId
        user == FindById(users, userId)
        rejection == authMiddleware_resolve(user)
        attached == [user EXCEPT !.lastLogin = now]
    IN  /\ r.pc = "authMiddleware_findById"
        /\ req' = [req EXCEPT ![s] =
              IF fails THEN authMiddleware_catch(r)
              ELSE IF rejection # NoResponse THEN Send([r EXCEPT !.doc = user], rejection)
              ELSE [r EXCEPT !.doc = attached, !.user = attached, !.userId = userId,
                             !.token = r.header.rest, !.pc = "authMiddleware_save"]]
        /\ UNCHANGED <<env, now, users, left, issued, tk>>

\* res.json of a document: the paths that were selected
toJSON(doc) ==
    IF doc.password = NotSelected THEN [f \in DOMAIN doc \ {"password"} |-> doc[f]]
    ELSE doc

\* getCurrentUser
getCurrentUser(r) ==
    Send(r, [Response(200, "", "") EXCEPT !.user = toJSON(r.user)])

\* a logout that gives up in its catch block
logout_failing(r) == Send(r, Response(500, "LOGOUT_ERROR", "Logout failed"))

\* logout
logout(r) ==
    Send(r, [Response(200, "", "Logged out successfully")
               EXCEPT !.hint = "Please delete tokens from client storage"])

\* the roles of the schema's enum
Roles == {"user", "pro", "admin"}

\* `Access denied. Required role: ${allowedRoles.join(' or ')}`
AccessDenied(allowedRoles) ==
    IF allowedRoles = {"admin"} THEN "Access denied. Required role: admin"
    ELSE IF allowedRoles = {"pro", "admin"}
    THEN "Access denied. Required role: pro or admin"
    ELSE "Access denied. Required role: "

NotAuthenticated == Response(401, "NOT_AUTHENTICATED", "Authentication required")

\* a role gate that lets every authenticated user through
requireRole_anyRole(allowedRoles, r) ==
    IF IsNull(r.user) THEN Send(r, NotAuthenticated)
    ELSE [r EXCEPT !.guardNexts = @ + 1]

\* requireRole(allowedRoles)(req, res, next)
requireRole(allowedRoles, r) ==
    IF IsNull(r.user) THEN Send(r, NotAuthenticated)
    ELSE IF r.user.role \notin allowedRoles
    THEN Send(r, Response(403, "INSUFFICIENT_PERMISSIONS", AccessDenied(allowedRoles)))
    ELSE [r EXCEPT !.guardNexts = @ + 1]

\* an email gate that does not look at the flag
requireEmailVerification_noFlag(r) ==
    IF IsNull(r.user) THEN Send(r, NotAuthenticated)
    ELSE [r EXCEPT !.guardNexts = @ + 1]

\* requireEmailVerification(req, res, next)
requireEmailVerification(r) ==
    IF IsNull(r.user) THEN Send(r, NotAuthenticated)
    ELSE IF ~r.user.isEmailVerified
    THEN Send(r, [Response(403, "EMAIL_NOT_VERIFIED",
                           "Email verification required. Please check your inbox.")
                    EXCEPT !.hint =
                      "Request a new verification email from /api/auth/resend-verification"])
    ELSE [r EXCEPT !.guardNexts = @ + 1]

\* routes composed as the middleware's usage notes compose them:
\*   admin       authMiddleware, requireRole(['admin'])
\*   pro         optionalAuthMiddleware, requireRole(['pro', 'admin'])
\*   workspaces  authMiddleware, requireEmailVerification
\*   beta        optionalAuthMiddleware, requireEmailVerification
\*   public      optionalAuthMiddleware
AllowedRoles(route) == IF route = "admin" THEN {"admin"} ELSE {"pro", "admin"}

RoleRoutes == {"admin", "pro"}
EmailRoutes == {"workspaces", "beta"}
GuardedRoutes == {"admin", "workspaces"}
OptionalRoutes == {"pro", "beta", "public"}

\* the second middleware of the route, if it has one
RouteGuard(r) ==
    IF r.route \in RoleRoutes THEN requireRole(AllowedRoles(r.route), r)
    ELSE IF r.route \in EmailRoutes THEN requireEmailVerification(r)
    ELSE r

\* the handler of a route of the usage notes: greets the user or the guest
welcome(r) ==
    Send(r, Response(200, "",
                     IF IsNull(r.user) THEN <<"Welcome guest">>
                     ELSE <<"Welcome back ", r.user.name>>))

\* an update-password that looks up another id than req.userId
updatePassword_otherUser(r) ==
    [r EXCEPT !.pc = "updatePassword_findById",
              !.userId = CHOOSE i \in Ids : i # r.userId]

\* updatePassword, up to `await User.findById(userId).select('+password')`
updatePassword(r) == [r EXCEPT !.pc = "updatePassword_findById"]

\* the last handler of the route
RouteHandler(r) ==
    CASE r.route = "me" -> getCurrentUser(r)
      [] r.route = "logout" -> logout(r)
      [] r.route = "password" -> updatePassword(r)
      [] OTHER -> welcome(r)

\* next(): the rest of the route runs in the same turn, up to its first await
Downstream(r) ==
    LET r1 == [r EXCEPT !.nexts = @ + 1]
        r2 == RouteGuard(r1)
    IN  IF r2.pc = "done" THEN r2 ELSE RouteHandler(r2)

\* a gate that calls next() whether or not the save succeeded
authMiddleware_save_lenient(s, fails) ==
    LET r == req[s] IN
    /\ r.pc = "authMiddleware_save"
    /\ IF fails \/ ~IsDoc(users[r.doc._id])
       THEN /\ req' = [req EXCEPT ![s] = Downstream([r EXCEPT !.threw = TRUE])]
            /\ UNCHANGED users
       ELSE /\ users' = SavePaths(users, preSave(r.doc, {"lastLogin"}), {"lastLogin"})
            /\ req' = [req EXCEPT ![s] =
                  Downstream([r EXCEPT !.secretAtSave = users[r.doc._id].password])]
    /\ UNCHANGED <<env, now, left, issued, tk>>

\* user.save() returns; STEP 8: next()
authMiddleware_save(s, fails) ==
    LET r == req[s] IN
    /\ r.pc = "authMiddleware_save"
    /\ IF fails \/ ~IsDoc(users[r.doc._id])
       THEN /\ req' = [req EXCEPT ![s] = authMiddleware_catch(r)]
            /\ UNCHANGED users
       ELSE /\ users' = SavePaths(users, preSave(r.doc, {"lastLogin"}), {"lastLogin"})
            /\ req' = [req EXCEPT ![s] =
                  Downstream([r EXCEPT !.secretAtSave = users[r.doc._id].password])]
    /\ UNCHANGED <<env, now, left, issued, tk>>

----------------------------------------------------------------------------
(* controllers/authController: updatePassword (PUT /password) *)

\* User.findById(id).select('+password')
FindByIdWithPassword(coll, id) ==
    IF id \in Ids /\ IsDoc(coll[id]) THEN coll[id] ELSE Null

\* the request arrives at the gate of PUT /password with its body
updatePassword_start(s, h, currentPassword, newPassword) ==
    LET o == authMiddleware_verify(h, env, now)
        r == [NewReq("password", "authMiddleware_findById", h,
                     [currentPassword |-> currentPassword, newPassword |-> newPassword])
                EXCEPT !.verification = o.verification]
    IN  /\ Arrive(s, IF o.resp # NoResponse THEN Send(r, o.resp) ELSE r)
        /\ UNCHANGED <<env, now, users, issued, tk>>

PasswordError == Response(500, "PASSWORD_UPDATE_ERROR", "Password update failed")

\* an update that does not compare the current password
updatePassword_check_noCompare(user, currentPassword) ==
    IF IsNull(user) THEN Response(404, "USER_NOT_FOUND", "User not found")
    ELSE NoResponse

\* STEP 1-2 of updatePassword: the rejection for the user looked up
updatePassword_check(user, currentPassword) ==
    IF IsNull(user) THEN Response(404, "USER_NOT_FOUND", "User not found")
    ELSE IF ~comparePassword(user, currentPassword)
    THEN Response(401, "INVALID_CURRENT_PASSWORD", "Current password is incorrect")
    ELSE NoResponse

\* STEP 1-3: the lookup returns; up to `await user.save()`
updatePassword_findById(s, fails) ==
    LET r == req[s]
        user == FindByIdWithPassword(users, r.userId)
        rejection == updatePassword_check(user, r.body.currentPassword)
    IN  /\ r.pc = "updatePassword_findById"
        /\ req' = [req EXCEPT ![s] =
              IF fails THEN Send([r EXCEPT !.threw = TRUE], PasswordError)
              ELSE IF rejection # NoResponse
              THEN Send([r EXCEPT !.doc = user, !.compared = ~IsNull(user)], rejection)
              ELSE [r EXCEPT !.doc = [user EXCEPT !.password = r.body.newPassword],
                             !.compared = TRUE,
                             !.pc = "updatePassword_save"]]
        /\ UNCHANGED <<env, now, users, left, issued, tk>>

\* STEP 3-5: the save returns; the new token pair and the response
updatePassword_save(s, fails) ==
    LET r == req[s]
        tokens == generateTokenPair(r.doc._id, env, now)
        ok == [Response(200, "", "Password updated successfully")
                 EXCEPT !.tokens = tokens]
    IN  /\ r.pc = "updatePassword_save"
        /\ IF fails \/ ~IsDoc(users[r.doc._id]) \/ ~validatePassword(r.doc.password)
           THEN /\ req' = [req EXCEPT ![s] = Send([r EXCEPT !.threw = TRUE], PasswordError)]
                /\ UNCHANGED <<users, issued>>
           ELSE /\ users' = SavePaths(users, preSave(r.doc, {"password"}), {"password"})
                /\ req' = [req EXCEPT ![s] = Send([r EXCEPT !.tokens = tokens], ok)]
                /\ issued' = issued \cup TokensOf(ok)
        /\ UNCHANGED <<env, now, left, tk>>

----------------------------------------------------------------------------
(* controllers/authController: refreshToken (POST /refresh) *)

\* the request arrives with body.refreshToken; up to `await User.findById`
refreshToken_start(s, rt) ==
    LET o == refreshToken_verify(rt, env, now)
        r == [NewReq("refresh", "refreshToken_findById", NoHeader,
                     [refreshToken |-> rt])
                EXCEPT !.verification = o.verification]
    IN  /\ Arrive(s, IF o.resp # NoResponse THEN Send(r, o.resp) ELSE r)
        /\ UNCHANGED <<env, now, users, issued, tk>>

\* a refresh that turns down an account that has used the API since it was
\* created (every request through the gate, logout included, sets lastLogin)
refreshToken_resolve_revokedByUse(user) ==
    IF IsNull(user) THEN Response(401, "USER_NOT_FOUND", "User not found")
    ELSE IF ~user.isActive \/ user.lastLogin # NoDate
    THEN Response(403, "ACCOUNT_DEACTIVATED", "Account is deactivated")
    ELSE NoResponse

\* a refresh that does not look at the account's isActive flag
refreshToken_resolve_ignoreActive(user) ==
    IF IsNull(user) THEN Response(401, "USER_NOT_FOUND", "User not found")
    ELSE NoResponse

\* STEP 3-4 of refreshToken: the rejection for the user looked up
refreshToken_resolve(user) ==
    IF IsNull(user) THEN Response(401, "USER_NOT_FOUND", "User not found")
    ELSE IF ~user.isActive
    THEN Response(403, "ACCOUNT_DEACTIVATED", "Account is deactivated")
    ELSE NoResponse

\* User.findById returns; STEP 3-6
refreshToken_findById(s, fails) ==
    LET r == req[s]
        user == FindById(users, r.verification.decoded.userId)
        rejection == refreshToken_resolve(user)
        tokens == generateTokenPair(user._id, env, now)
        ok == [Response(200, "", "Token refreshed successfully")
                 EXCEPT !.tokens = tokens]
    IN  /\ r.pc = "refreshToken_findById"
        /\ IF fails
           THEN /\ req' = [req EXCEPT ![s] =
                      Send([r EXCEPT !.threw = TRUE],
                           Response(500, "REFRESH_ERROR", "Token refresh failed"))]
                /\ UNCHANGED issued
           ELSE IF rejection # NoResponse
           THEN /\ req' = [req EXCEPT ![s] = Send([r EXCEPT !.doc = user], rejection)]
                /\ UNCHANGED issued
           ELSE /\ req' = [req EXCEPT ![s] =
                      Send([r EXCEPT !.doc = user, !.tokens = tokens], ok)]
                /\ issued' = issued \cup TokensOf(ok)
        /\ UNCHANGED <<env, now, users, left, tk>>

----------------------------------------------------------------------------
(* middleware/authMiddleware: optionalAuthMiddleware *)

\* the request arrives; the middleware calls next() at once, or runs up to
\* `await User.findById(userId)`
optionalAuthMiddleware_start(s, route, h) ==
    LET verified == ~HeaderFalsy(h) /\ StartsWithBearer(h) /\ ~IsBlank(h.rest)
        verification == IF verified THEN verifyAccessToken(h.rest, env, now) ELSE Null
        r == [NewReq(route, "optionalAuth_findById", h, NoBody)
                EXCEPT !.verification = verification]
    IN  /\ Arrive(s, IF verified /\ verification.valid THEN r ELSE Downstream(r))
        /\ UNCHANGED <<env, now, users, issued, tk>>

\* an optional gate that attaches whatever user the lookup returns
optionalAuth_attach_anyUser(r, user, userId) ==
    IF ~IsNull(user) THEN [r EXCEPT !.doc = user, !.user = user, !.userId = userId]
    ELSE [r EXCEPT !.doc = user]

\* if (user && user.isActive) { req.user = user; req.userId = userId; }
optionalAuth_attach(r, user, userId) ==
    IF ~IsNull(user) /\ user.isActive
    THEN [r EXCEPT !.doc = user, !.user = user, !.userId = userId]
    ELSE [r EXCEPT !.doc = user]

\* User.findById returns or throws; next() in either case
optionalAuthMiddleware_findById(s, fails) ==
    LET r == req[s]
        userId == r.verification.decoded.userId
        user == FindById(users, userId)
    IN  /\ r.pc = "optionalAuth_findById"
        /\ req' = [req EXCEPT ![s] =
              IF fails THEN Downstream([r EXCEPT !.threw = TRUE])
              ELSE Downstream(optionalAuth_attach(r, user, userId))]
        /\ UNCHANGED <<env, now, users, left, issued, tk>>

----------------------------------------------------------------------------
(* The environment: the clock and out-of-band store changes *)

Tick ==
    /\ now < MaxTime
    /\ now' = now + 1
    /\ UNCHANGED <<env, sysvars, tk>>

\* an account is deactivated (isActive: the soft-delete flag)
Deactivate(id) ==
    /\ IsDoc(users[id]) /\ users[id].isActive
    /\ users' = [users EXCEPT ![id].isActive = FALSE]
    /\ UNCHANGED <<env, now, req, left, issued, tk>>

\* an account is given another role of the enum
SetRole(id, role) ==
    /\ IsDoc(users[id]) /\ users[id].role # role
    /\ users' = [users EXCEPT ![id].role = role]
    /\ UNCHANGED <<env, now, req, left, issued, tk>>

\* an account's email is marked verified
VerifyEmail(id) ==
    /\ IsDoc(users[id]) /\ ~users[id].isEmailVerified
    /\ users' = [users EXCEPT ![id].isEmailVerified = TRUE]
    /\ UNCHANGED <<env, now, req, left, issued, tk>>

\* an account is deleted from the collection
Delete(id) ==
    /\ IsDoc(users[id])
    /\ users' = [users EXCEPT ![id] = Gone]
    /\ UNCHANGED <<env, now, req, left, issued, tk>>

----------------------------------------------------------------------------
(* Specifications *)

\* the configurations the request-level specifications start from
SysEnvs ==
    {e \in Envs : /\ e.JWT_REFRESH_EXPIRE = Unset
                  /\ e.JWT_EXPIRE \in {Unset, [n |-> 1, unit |-> "s"]}}

\* the collection at process start: empty, or holding the account that
\* register("a@x.com", "Pass1234", "Ann") created in an earlier run at time 0
SeedUser ==
    preSave(NewUser(1, "a@x.com", <<"Pass1234">>, "Ann", "user", FALSE), {"password"})

SeedTokens(e) ==
    LET pair == generateTokenPair(1, e, 0) IN {pair.accessToken, pair.refreshToken}

Boot(quota) ==
    /\ env \in SysEnvs
    /\ now = 0
    /\ \/ users = [i \in Ids |-> NoDoc] /\ issued = {}
       \/ /\ users = [i \in Ids |-> IF i = 1 THEN SeedUser ELSE NoDoc]
          /\ issued = SeedTokens(env)
    /\ req = [s \in Slots |-> Idle]
    /\ left = quota
    /\ tk = NoBench

Init == Boot(MaxReqs)

RegisterSteps(S) ==
    \/ \E s \in S, email \in Emails, password \in Passwords :
          register_start(s, email, password)
    \/ \E s \in S, fails \in BOOLEAN : register_findOne(s, fails)
    \/ \E s \in S, fails \in BOOLEAN : register_create(s, fails)

LoginSteps(S) ==
    \/ \E s \in S, email \in Emails, password \in Passwords :
          login_start(s, email, password)
    \/ \E s \in S, fails \in BOOLEAN : login_findOne(s, fails)
    \/ \E s \in S, fails \in BOOLEAN : login_save(s, fails)

GateSteps(S) ==
    \/ \E s \in S, route \in GatedRoutes, h \in Headers(issued) :
          authMiddleware_start(s, route, h)
    \/ \E s \in S, fails \in BOOLEAN : authMiddleware_findById(s, fails)
    \/ \E s \in S, fails \in BOOLEAN : authMiddleware_save(s, fails)

\* the service answering one request at a time, while the clock advances and
\* accounts are deactivated or deleted between and during requests
Next ==
    \/ RegisterSteps({1})
    \/ LoginSteps({1})
    \/ GateSteps({1})
    \/ \E id \in Ids : Deactivate(id)
    \/ \E id \in Ids : Delete(id)
    \/ Tick

Spec == Init /\ [][Next]_vars

\* two concurrent requests to the public routes POST /register, POST /login
NextReg ==
    \/ RegisterSteps(Slots)
    \/ LoginSteps(Slots)
    \/ \E id \in Ids : Deactivate(id)

SpecReg == Init /\ [][NextReg]_vars

\* a registration followed by logins, with passwords of every length the
\* register schema accepts
NextCred ==
    \/ \E email \in Emails, password \in Passwords \cup LongPasswords :
          register_start(1, email, password)
    \/ \E fails \in BOOLEAN : register_findOne(1, fails)
    \/ \E fails \in BOOLEAN : register_create(1, fails)
    \/ \E email \in Emails, password \in Passwords \cup LongPasswords :
          login_start(2, email, password)
    \/ \E fails \in BOOLEAN : login_findOne(2, fails)
    \/ \E fails \in BOOLEAN : login_save(2, fails)
    \/ Tick

SpecCred == Init /\ [][NextCred]_vars

\* the headers sent to the routes behind the optional gate and the guards
GuardHeaders(tokens) ==
    {NoHeader, HeaderOf("Basic ", Garbage), HeaderOf("Bearer ", Spaces)}
    \cup {Bearer(t) : t \in tokens \cup {Garbage}}

OptionalSteps(S) ==
    \/ \E s \in S, route \in OptionalRoutes, h \in GuardHeaders(issued) :
          optionalAuthMiddleware_start(s, route, h)
    \/ \E s \in S, fails \in BOOLEAN : optionalAuthMiddleware_findById(s, fails)

GuardedSteps(S) ==
    \/ \E s \in S, route \in GuardedRoutes, h \in GuardHeaders(issued) :
          authMiddleware_start(s, route, h)
    \/ \E s \in S, fails \in BOOLEAN : authMiddleware_findById(s, fails)
    \/ \E s \in S, fails \in BOOLEAN : authMiddleware_save(s, fails)

\* one request at a time to the routes behind optionalAuthMiddleware,
\* requireRole and requireEmailVerification, while accounts change
NextMw ==
    \/ OptionalSteps({1})
    \/ GuardedSteps({1})
    \/ \E id \in Ids, role \in Roles : SetRole(id, role)
    \/ \E id \in Ids : VerifyEmail(id)
    \/ \E id \in Ids : Deactivate(id)
    \/ \E id \in Ids : Delete(id)
    \/ Tick

SpecMw == Init /\ [][NextMw]_vars

\* the refresh tokens a client can put in the body: none, no JWT, one it
\* was sent
RefreshBodies(tokens) == {EmptyString, Garbage} \cup tokens

SessionSteps(S) ==
    \/ \E s \in S, route \in GatedRoutes, h \in GuardHeaders(issued) :
          authMiddleware_start(s, route, h)
    \/ \E s \in S, h \in GuardHeaders(issued), cur \in Passwords,
             new \in Passwords \cup {ShortPassword} :
          updatePassword_start(s, h, cur, new)
    \/ \E s \in S, fails \in BOOLEAN : authMiddleware_findById(s, fails)
    \/ \E s \in S, fails \in BOOLEAN : authMiddleware_save(s, fails)
    \/ \E s \in S, fails \in BOOLEAN : updatePassword_findById(s, fails)
    \/ \E s \in S, fails \in BOOLEAN : updatePassword_save(s, fails)
    \/ \E s \in S, rt \in RefreshBodies(issued) : refreshToken_start(s, rt)
    \/ \E s \in S, fails \in BOOLEAN : refreshToken_findById(s, fails)

\* a client's session after login: one request at a time to /me, /logout,
\* /password and /refresh, while time passes and accounts are deactivated
\* or deleted
NextSess ==
    \/ SessionSteps({1})
    \/ \E id \in Ids : Deactivate(id)
    \/ \E id \in Ids : Delete(id)
    \/ Tick

SpecSess == Init /\ [][NextSess]_vars

\* two clients of the routes behind the gate, GET /me and POST /logout, one
\* request each at a time, while time passes and accounts are deactivated
NextOut ==
    \/ \E s \in Slots, route \in GatedRoutes, h \in GuardHeaders(issued) :
          authMiddleware_start(s, route, h)
    \/ \E s \in Slots, fails \in BOOLEAN : authMiddleware_findById(s, fails)
    \/ \E s \in Slots, fails \in BOOLEAN : authMiddleware_save(s, fails)
    \/ \E id \in Ids : Deactivate(id)
    \/ Tick

SpecOut == Init /\ [][NextOut]_vars

\* the six routes of the auth router, one request at a time within one
\* second of the clock, while accounts are deactivated or deleted
NextApi ==
    \/ RegisterSteps({1})
    \/ LoginSteps({1})
    \/ SessionSteps({1})
    \/ \E id \in Ids : Deactivate(id)
    \/ \E id \in Ids : Delete(id)

SpecApi == Init /\ [][NextApi]_vars

\* every password the clients of the model submit
AllPasswords == Passwords \cup LongPasswords

\* the account of an earlier run, registered with a password longer than 72
\* bytes: register("a@x.com", LongA, "Ann")
SeedLongUser ==
    preSave(NewUser(1, "a@x.com", <<"Pass1234-and-64-more-bytes", "Tail-A">>,
                    "Ann", "user", FALSE), {"password"})

\* the process starts with one account and the tokens it was sent
InitPwd ==
    /\ env \in SysEnvs
    /\ now = 0
    /\ \E seed \in {SeedUser, SeedLongUser} :
          users = [i \in Ids |-> IF i = 1 THEN seed ELSE NoDoc]
    /\ issued = SeedTokens(env)
    /\ req = [s \in Slots |-> Idle]
    /\ left = MaxReqs
    /\ tk = NoBench

\* one client changes passwords through PUT /password while another logs
\* in, with passwords of every length
NextPwd ==
    \/ \E h \in GuardHeaders(issued), cur \in AllPasswords, new \in AllPasswords :
          updatePassword_start(1, h, cur, new)
    \/ \E fails \in BOOLEAN : authMiddleware_findById(1, fails)
    \/ \E fails \in BOOLEAN : authMiddleware_save(1, fails)
    \/ \E fails \in BOOLEAN : updatePassword_findById(1, fails)
    \/ \E fails \in BOOLEAN : updatePassword_save(1, fails)
    \/ \E email \in Emails, password \in AllPasswords :
          login_start(2, email, password)
    \/ \E fails \in BOOLEAN : login_findOne(2, fails)
    \/ \E fails \in BOOLEAN : login_save(2, fails)
    \/ Tick

SpecPwd == InitPwd /\ [][NextPwd]_vars

\* registrations and logins with email strings as clients type them, one
\* request at a time, while accounts are deactivated
NextNorm ==
    \/ \E rawEmail \in RawEmails, password \in Passwords :
          register_route(1, rawEmail, password, "Ann")
    \/ \E fails \in BOOLEAN : register_findOne(1, fails)
    \/ \E fails \in BOOLEAN : register_create(1, fails)
    \/ \E rawEmail \in RawEmails, password \in Passwords :
          login_route(1, rawEmail, password)
    \/ \E fails \in BOOLEAN : login_findOne(1, fails)
    \/ \E fails \in BOOLEAN : login_save(1, fails)
    \/ \E id \in Ids : Deactivate(id)
    \/ Tick

SpecNorm == Init /\ [][NextNorm]_vars

\* the bodies sent to POST /register and POST /login: an address, a variant
\* of it and a string that is none, with passwords and names the schemas
\* accept and turn down
BodyEmails == {"a@x.com", " A@x.COM ", "nobody"}
BodyPasswords == Passwords \cup {ShortPassword, WeakPassword, NoPassword}

\* registrations and logins as the router runs them, one request at a time,
\* with bodies of every kind
NextVal ==
    \/ \E rawEmail \in BodyEmails, password \in BodyPasswords, name \in Names :
          register_route(1, rawEmail, password, name)
    \/ \E fails \in BOOLEAN : register_findOne(1, fails)
    \/ \E fails \in BOOLEAN : register_create(1, fails)
    \/ \E rawEmail \in BodyEmails, password \in BodyPasswords :
          login_route(1, rawEmail, password)
    \/ \E fails \in BOOLEAN : login_findOne(1, fails)
    \/ \E fails \in BOOLEAN : login_save(1, fails)
    \/ \E id \in Ids : Deactivate(id)

SpecVal == Init /\ [][NextVal]_vars

\* one client of GET /me and POST /logout with every kind of Authorization
\* header, one request at a time, while time passes and accounts are
\* deactivated or deleted
NextGate ==
    \/ GateSteps({1})
    \/ \E id \in Ids : Deactivate(id)
    \/ \E id \in Ids : Delete(id)
    \/ Tick

SpecGate == Init /\ [][NextGate]_vars

\* one client changes the password through PUT /password while another logs
\* in or calls GET /me and POST /logout, within one second of the clock
NextRace ==
    \/ \E h \in GuardHeaders(issued), cur \in Passwords, new \in Passwords :
          updatePassword_start(1, h, cur, new)
    \/ \E fails \in BOOLEAN : updatePassword_findById(1, fails)
    \/ \E fails \in BOOLEAN : updatePassword_save(1, fails)
    \/ \E email \in Emails, password \in Passwords : login_start(2, email, password)
    \/ \E fails \in BOOLEAN : login_findOne(2, fails)
    \/ \E fails \in BOOLEAN : login_save(2, fails)
    \/ \E route \in GatedRoutes, h \in GuardHeaders(issued) :
          authMiddleware_start(2, route, h)
    \/ \E s \in Slots, fails \in BOOLEAN : authMiddleware_findById(s, fails)
    \/ \E s \in Slots, fails \in BOOLEAN : authMiddleware_save(s, fails)

SpecRace == Init /\ [][NextRace]_vars

\* one client of POST /login, POST /refresh, GET /me and POST /logout, one
\* request at a time, while time passes and accounts are deactivated or
\* deleted
NextRej ==
    \/ LoginSteps({1})
    \/ GateSteps({1})
    \/ \E rt \in RefreshBodies(issued) : refreshToken_start(1, rt)
    \/ \E fails \in BOOLEAN : refreshToken_findById(1, fails)
    \/ \E id \in Ids : Deactivate(id)
    \/ \E id \in Ids : Delete(id)
    \/ Tick

SpecRej == Init /\ [][NextRej]_vars

\* one client of the three protected routes GET /me, POST /logout and
\* PUT /password, one request at a time, while time passes and accounts are
\* deactivated or deleted
NextProt ==
    \/ \E route \in GatedRoutes, h \in GuardHeaders(issued) :
          authMiddleware_start(1, route, h)
    \/ \E h \in GuardHeaders(issued), cur \in Passwords, new \in Passwords :
          updatePassword_start(1, h, cur, new)
    \/ \E fails \in BOOLEAN : authMiddleware_findById(1, fails)
    \/ \E fails \in BOOLEAN : authMiddleware_save(1, fails)
    \/ \E fails \in BOOLEAN : updatePassword_findById(1, fails)
    \/ \E fails \in BOOLEAN : updatePassword_save(1, fails)
    \/ \E id \in Ids : Deactivate(id)
    \/ \E id \in Ids : Delete(id)
    \/ Tick

SpecProt == Init /\ [][NextProt]_vars

\* the store answers the pending call of the request in slot s: the call
\* returns or fails, and the handler runs up to its next await or to its
\* answer
StoreReturns(s) ==
    \E fails \in BOOLEAN :
        \/ register_findOne(s, fails)
        \/ register_create(s, fails)
        \/ login_findOne(s, fails)
        \/ login_save(s, fails)
        \/ refreshToken_findById(s, fails)
        \/ authMiddleware_findById(s, fails)
        \/ authMiddleware_save(s, fails)
        \/ updatePassword_findById(s, fails)
        \/ updatePassword_save(s, fails)

\* the headers and bodies of the clients of the six routes
LiveHeaders(tokens) == {NoHeader} \cup {Bearer(t) : t \in tokens}

\* requests arrive at the three protected routes
ProtectedArrivals(s) ==
    \/ \E route \in GatedRoutes, h \in LiveHeaders(issued) :
          authMiddleware_start(s, route, h)
    \/ \E h \in LiveHeaders(issued) :
          updatePassword_start(s, h, <<"Pass1234">>, <<"Word5678">>)

\* requests arrive at the three public routes
PublicArrivals(s) ==
    \/ register_start(s, "b@x.com", <<"Pass1234">>)
    \/ \E password \in Passwords : login_start(s, "a@x.com", password)
    \/ \E rt \in RefreshBodies(issued) : refreshToken_start(s, rt)

\* a client of the protected routes and a client of the public routes, one
\* request each at a time, with a store that answers every call it was
\* sent: weak fairness of the store's answer to each request, none of the
\* clients' sends
NextLive ==
    \/ ProtectedArrivals(1)
    \/ PublicArrivals(2)
    \/ \E s \in Slots : StoreReturns(s)

SpecLive == Init /\ [][NextLive]_vars /\ \A s \in Slots : WF_vars(StoreReturns(s))

\* every way a stored secret is written or saved around: registrations,
\* logins and password updates behind the gate, one request at a time, with
\* passwords of every length
NextHash ==
    \/ \E email \in Emails, password \in AllPasswords :
          register_start(1, email, password)
    \/ \E fails \in BOOLEAN : register_findOne(1, fails)
    \/ \E fails \in BOOLEAN : register_create(1, fails)
    \/ \E email \in Emails, password \in AllPasswords :
          login_start(1, email, password)
    \/ \E fails \in BOOLEAN : login_findOne(1, fails)
    \/ \E fails \in BOOLEAN : login_save(1, fails)
    \/ \E h \in GuardHeaders(issued), cur \in AllPasswords, new \in AllPasswords :
          updatePassword_start(1, h, cur, new)
    \/ \E fails \in BOOLEAN : authMiddleware_findById(1, fails)
    \/ \E fails \in BOOLEAN : authMiddleware_save(1, fails)
    \/ \E fails \in BOOLEAN : updatePassword_findById(1, fails)
    \/ \E fails \in BOOLEAN : updatePassword_save(1, fails)

SpecHash == InitPwd /\ [][NextHash]_vars

----------------------------------------------------------------------------
(* Properties of the Auth Gate *)

GateReqs == {s \in Slots : req[s].route \in GatedRoutes}

\* the gate let the request through: next() was called or identity attached
Reached(r) ==
    r.nexts > 0 \/ ~IsNull(r.user) \/ r.userId # 0 \/ ~IsNull(r.token)

\* all six conditions of the gate held for the request
Passed(r) ==
    /\ ~HeaderFalsy(r.header)
    /\ StartsWithBearer(r.header)
    /\ ~IsBlank(r.header.rest)
    /\ ~IsNull(r.verification) /\ IsValid(r.verification)
    /\ \E t \in 0..now : verifyAccessToken(r.header.rest, env, t) = r.verification
    /\ IsDoc(r.doc)
    /\ r.doc._id = r.verification.decoded.userId
    /\ r.doc.isActive

\* C1: a request through authMiddleware reaches the downstream handler, or
\* has req.user / req.userId / req.token attached, only if the Authorization
\* header was present, started with 'Bearer ', the token was non-blank,
\* verifyAccessToken returned valid for it, a user with the token's userId
\* was found and that user was active; the identity attached is that user
\* and that token, and next() is called at most once and in no other case.
C1_GateLetsThroughOnlyVerified ==
    \A s \in GateReqs :
        LET r == req[s] IN
        /\ r.nexts <= 1
        /\ Reached(r) =>
              /\ Passed(r)
              /\ r.user = r.doc
              /\ r.userId = r.verification.decoded.userId
              /\ r.token = r.header.rest
        /\ (r.pc = "done" /\ ~Passed(r)) => r.nexts = 0

\* C1 witness: a request with a valid token of an active user was let
\* through to its handler, which answered 200, with the identity attached.
C1_Witness ==
    \E s \in GateReqs :
        /\ req[s].pc = "done"
        /\ req[s].nexts = 1
        /\ Passed(req[s])
        /\ req[s].userId = req[s].user._id
        /\ req[s].sent[1].status = 200

\* C2: when the gate's user lookup returns for a valid access token, a
\* subject that is in the collection with isActive = false is answered 403
\* ACCOUNT_DEACTIVATED (not INVALID_TOKEN), a subject that is no longer in
\* the collection is answered 401 USER_NOT_FOUND, and in both cases the
\* request ends there with next() not called.
C2_DeactivatedAndMissing ==
    [][\A s \in Slots :
          (/\ req[s].pc = "authMiddleware_findById"
           /\ req'[s].pc # "authMiddleware_findById"
           /\ ~req'[s].threw) =>
             LET id == req[s].verification.decoded.userId
                 r2 == req'[s]
             IN  /\ IsValid(req[s].verification)
                 /\ (IsDoc(users[id]) /\ ~users[id].isActive) =>
                       /\ r2.pc = "done" /\ r2.nexts = 0 /\ IsNull(r2.user)
                       /\ Len(r2.sent) = 1
                       /\ r2.sent[1].status = 403
                       /\ r2.sent[1].code = "ACCOUNT_DEACTIVATED"
                 /\ ~IsDoc(users[id]) =>
                       /\ r2.pc = "done" /\ r2.nexts = 0 /\ IsNull(r2.user)
                       /\ Len(r2.sent) = 1
                       /\ r2.sent[1].status = 401
                       /\ r2.sent[1].code = "USER_NOT_FOUND"]_vars

\* C2 witness: a request whose token verified was answered 403
\* ACCOUNT_DEACTIVATED because its subject had been deactivated.
C2_Witness ==
    \E s \in GateReqs :
        /\ req[s].pc = "done"
        /\ ~IsNull(req[s].verification) /\ IsValid(req[s].verification)
        /\ IsDoc(users[req[s].verification.decoded.userId])
        /\ ~users[req[s].verification.decoded.userId].isActive
        /\ req[s].sent[1].code = "ACCOUNT_DEACTIVATED"
        /\ req[s].nexts = 0

\* the other case of C2: the subject was deleted while holding a valid token
C2_WitnessDeleted ==
    \E s \in GateReqs :
        /\ req[s].pc = "done"
        /\ ~IsNull(req[s].verification) /\ IsValid(req[s].verification)
        /\ users[req[s].verification.decoded.userId] = Gone
        /\ req[s].sent[1].code = "USER_NOT_FOUND"
        /\ req[s].nexts = 0

\* the request was answered by the gate alone with this status and code
RejectedWith(r, status, code) ==
    /\ r.pc = "done"
    /\ r.nexts = 0
    /\ Len(r.sent) = 1
    /\ r.sent[1].status = status
    /\ r.sent[1].code = code

\* neither the Token Service nor the users collection was consulted
NothingConsulted(r) == IsNull(r.verification) /\ IsNull(r.doc) /\ ~r.threw

HeaderCodes == {"NO_TOKEN", "INVALID_FORMAT", "EMPTY_TOKEN"}

\* C11: the gate tests the header in order and rejects at the first failing
\* step without calling next(): no Authorization header -> 401 NO_TOKEN; a
\* header that does not start with 'Bearer ' -> 401 INVALID_FORMAT; a blank
\* token after the prefix -> 401 EMPTY_TOKEN. A request rejected in one of
\* these steps has consulted neither verifyAccessToken nor the users
\* collection, and these codes are sent for no other request.
C11_HeaderChecksInOrder ==
    \A s \in GateReqs :
        LET r == req[s]
            h == r.header
        IN  /\ HeaderFalsy(h) => RejectedWith(r, 401, "NO_TOKEN")
            /\ (~HeaderFalsy(h) /\ ~StartsWithBearer(h))
                  => RejectedWith(r, 401, "INVALID_FORMAT")
            /\ (~HeaderFalsy(h) /\ StartsWithBearer(h) /\ IsBlank(h.rest))
                  => RejectedWith(r, 401, "EMPTY_TOKEN")
            /\ (HeaderFalsy(h) \/ ~StartsWithBearer(h) \/ IsBlank(h.rest))
                  => NothingConsulted(r)
            /\ (Len(r.sent) > 0 /\ r.sent[1].code \in HeaderCodes)
                  => (HeaderFalsy(h) \/ ~StartsWithBearer(h) \/ IsBlank(h.rest))

\* C11 witness: a header of another scheme with a blank credential, which
\* fails the second and the third step, was rejected at the second.
C11_Witness ==
    \E s \in GateReqs :
        /\ req[s].header = HeaderOf("Basic ", Spaces)
        /\ RejectedWith(req[s], 401, "INVALID_FORMAT")
        /\ NothingConsulted(req[s])

\* C12: a fault raised in the gate (the user lookup or the lastLogin save
\* failing) is caught and answered by the gate with 500 AUTH_ERROR; it is the
\* only response of the request and the downstream handler is not reached.
C12_FaultsAnswered500 ==
    \A s \in GateReqs :
        LET r == req[s] IN
        /\ r.threw => /\ RejectedWith(r, 500, "AUTH_ERROR")
                      /\ r.sent[1] = GateError
        /\ (r.pc = "done" /\ Len(r.sent) = 1 /\ r.sent[1].status = 500) => r.threw
        /\ r.pc = "done" => Len(r.sent) = 1

\* C12 witness: the lastLogin save of a request that had passed every test
\* failed, and the request was answered 500 AUTH_ERROR.
C12_Witness ==
    \E s \in GateReqs :
        /\ req[s].threw
        /\ Passed(req[s])
        /\ ~IsNull(req[s].user)
        /\ RejectedWith(req[s], 500, "AUTH_ERROR")

----------------------------------------------------------------------------
(* Properties of register and login *)

Registers == {s \in Slots : req[s].route = "register"}
Logins == {s \in Slots : req[s].route = "login"}

\* two registrations of one email that was not in the collection, submitted
\* while the other was in flight, both answered without a store failure
RacedRegisters(s, t) ==
    /\ s # t
    /\ s \in Registers /\ t \in Registers
    /\ req[s].body.email = req[t].body.email
    /\ req[s].body.email \notin (req[s].taken \cup req[t].taken)
    /\ (t \in req[s].peers \/ s \in req[t].peers)
    /\ req[s].pc = "done" /\ req[t].pc = "done"
    /\ ~req[s].threw /\ ~req[t].threw

Created(r) ==
    /\ Len(r.sent) = 1
    /\ r.sent[1].status = 201
    /\ ~IsNull(r.sent[1].tokens)

Conflict(r) == Len(r.sent) = 1 /\ r.sent[1].status = 409

\* C3: the collection never holds two users with the same email, whatever
\* the interleaving of register requests; and of two registrations of the
\* same new email submitted concurrently (the store answering both), exactly
\* one is answered 201 with a token pair and the other 409.
C3_OneUserPerEmail ==
    /\ \A i, j \in Ids :
          (IsDoc(users[i]) /\ IsDoc(users[j]) /\ users[i].email = users[j].email)
             => i = j
    /\ \A s, t \in Slots :
          RacedRegisters(s, t) =>
             \/ Created(req[s]) /\ Conflict(req[t])
             \/ Created(req[t]) /\ Conflict(req[s])

\* C3 witness: two concurrent registrations of one new email were answered,
\* the loser by the unique index after it had passed the pre-check.
C3_Witness ==
    \E s, t \in Slots :
        /\ RacedRegisters(s, t)
        /\ Created(req[s])
        /\ Conflict(req[t])
        /\ req[t].sent[1].code = "DUPLICATE_EMAIL"
        /\ Cardinality({i \in Ids : IsDoc(users[i])
                                    /\ users[i].email = req[s].body.email}) = 1

\* the response of a registration rejected by the pre-check
PreCheckRejection ==
    [Response(409, "EMAIL_EXISTS", "Email already registered")
       EXCEPT !.hint = "Try logging in or use a different email"]

\* C4: a registration that loses the insert race (it passed the pre-check and
\* the store rejected its insert with a uniqueness conflict) is answered with
\* the same EmailExists outcome, 409 with code EMAIL_EXISTS, as a
\* registration rejected by the pre-check.
C4_RaceLoserGetsEmailExists ==
    \A s \in Registers :
        (req[s].pc = "done" /\ ~req[s].threw /\ Conflict(req[s])) =>
            /\ req[s].sent[1].code = "EMAIL_EXISTS"
            /\ req[s].sent[1].code = PreCheckRejection.code

\* the cause of a login rejection, from the user the handler looked up
UnknownEmail(r) ==
    /\ r.pc = "done" /\ ~r.threw /\ IsNull(r.doc)

WrongPassword(r) ==
    /\ r.pc = "done" /\ ~r.threw /\ IsDoc(r.doc) /\ r.doc.isActive
    /\ ~bcryptCompare(r.body.password, r.doc.password)

\* C5: a login with an email that matches no user and a login with a known
\* active user's email but a wrong password are answered with the same
\* response: status 401, code INVALID_CREDENTIALS, the same message and
\* nothing else that differs.
C5_SameRejection ==
    \A s, t \in Logins :
        (UnknownEmail(req[s]) /\ WrongPassword(req[t])) =>
            /\ req[s].sent = req[t].sent
            /\ Len(req[s].sent) = 1
            /\ req[s].sent[1].status = 401
            /\ req[s].sent[1].code = "INVALID_CREDENTIALS"

\* C5 witness: one login with an unregistered email and one with a
\* registered email and a wrong password have both been answered.
C5_Witness ==
    \E s, t \in Logins :
        /\ UnknownEmail(req[s])
        /\ WrongPassword(req[t])
        /\ req[t].body.email \in req[t].taken
        /\ req[s].body.email \notin req[s].taken
        /\ req[s].sent[1].status = 401 /\ req[t].sent[1].status = 401

----------------------------------------------------------------------------
(* Properties of optionalAuthMiddleware, requireRole, requireEmailVerification *)

OptionalReqs == {s \in Slots : req[s].route \in OptionalRoutes}
RoleReqs == {s \in Slots : req[s].route \in RoleRoutes}
EmailReqs == {s \in Slots : req[s].route \in EmailRoutes}

\* the codes of authMiddleware's own responses
GateCodes ==
    HeaderCodes \cup {"TOKEN_EXPIRED", "INVALID_TOKEN", "USER_NOT_FOUND",
                      "ACCOUNT_DEACTIVATED", "AUTH_ERROR"}

\* the header carries an access token that verified
TokenVerified(r) ==
    /\ ~HeaderFalsy(r.header) /\ StartsWithBearer(r.header) /\ ~IsBlank(r.header.rest)
    /\ ~IsNull(r.verification) /\ IsValid(r.verification)

\* C13: optionalAuthMiddleware never rejects. Whatever the header, the token,
\* the user or the store does, it sends no response of its own and calls
\* next() exactly once (never while its lookup is pending, once when it is
\* over); req.user / req.userId are attached only when the access token
\* verified and the user was found and active, and in every other case,
\* a store fault included, the request goes on without identity.
C13_OptionalNeverRejects ==
    \A s \in OptionalReqs :
        LET r == req[s] IN
        /\ r.pc = "optionalAuth_findById" => (r.nexts = 0 /\ r.sent = <<>>)
        /\ r.pc = "done" =>
              /\ r.nexts = 1
              /\ Len(r.sent) = 1
              /\ r.sent[1].code \notin GateCodes
              /\ r.route = "public" => r.sent[1].status = 200
        /\ (~IsNull(r.user) \/ r.userId # 0) =>
              /\ TokenVerified(r)
              /\ ~r.threw
              /\ IsDoc(r.doc) /\ r.doc.isActive
              /\ r.user = r.doc
              /\ r.userId = r.doc._id
              /\ r.userId = r.verification.decoded.userId
        /\ (r.pc = "done" /\ TokenVerified(r) /\ ~r.threw /\ IsDoc(r.doc) /\ r.doc.isActive)
              => r.user = r.doc
        /\ IsNull(r.token)

\* C13 witness: a request whose token verified for a deactivated user went
\* on to the handler as a guest.
C13_Witness ==
    \E s \in OptionalReqs :
        /\ req[s].route = "public"
        /\ req[s].pc = "done"
        /\ TokenVerified(req[s])
        /\ IsDoc(req[s].doc) /\ ~req[s].doc.isActive
        /\ IsNull(req[s].user)
        /\ req[s].nexts = 1
        /\ req[s].sent[1].status = 200

\* the other cases of C13: a store fault, and an invalid token
C13_WitnessFault ==
    \E s \in OptionalReqs :
        req[s].pc = "done" /\ req[s].threw /\ req[s].nexts = 1 /\ IsNull(req[s].user)

\* C14: requireRole(allowedRoles), once the request reaches it: with no
\* req.user it rejects with 401 NOT_AUTHENTICATED; with req.user it calls
\* next() if and only if req.user.role is one of allowedRoles, and rejects
\* with 403 INSUFFICIENT_PERMISSIONS otherwise.
C14_RoleGate ==
    \A s \in RoleReqs :
        LET r == req[s]
            allowed == AllowedRoles(r.route)
        IN  /\ r.guardNexts <= r.nexts
            /\ (r.pc = "done" /\ r.nexts = 1) =>
                  /\ IsNull(r.user) =>
                        /\ r.guardNexts = 0
                        /\ r.sent = <<NotAuthenticated>>
                        /\ r.sent[1].status = 401
                        /\ r.sent[1].code = "NOT_AUTHENTICATED"
                  /\ ~IsNull(r.user) =>
                        /\ r.guardNexts = 1 <=> r.user.role \in allowed
                        /\ r.user.role \in allowed =>
                              (Len(r.sent) = 1 /\ r.sent[1].status = 200)
                        /\ r.user.role \notin allowed =>
                              /\ r.guardNexts = 0
                              /\ Len(r.sent) = 1
                              /\ r.sent[1].status = 403
                              /\ r.sent[1].code = "INSUFFICIENT_PERMISSIONS"

\* C14 witness: an account that was made admin passed requireRole(['admin']).
C14_Witness ==
    \E s \in RoleReqs :
        /\ req[s].route = "admin"
        /\ req[s].pc = "done"
        /\ ~IsNull(req[s].user)
        /\ req[s].user.role = "admin"
        /\ req[s].guardNexts = 1
        /\ req[s].sent[1].status = 200

\* the other cases of C14: a role outside allowedRoles, and no identity
C14_WitnessDenied ==
    \E s \in RoleReqs :
        /\ req[s].pc = "done" /\ ~IsNull(req[s].user)
        /\ req[s].user.role = "pro" /\ req[s].route = "admin"
        /\ req[s].sent[1].code = "INSUFFICIENT_PERMISSIONS"

C14_WitnessNoIdentity ==
    \E s \in RoleReqs :
        /\ req[s].pc = "done" /\ req[s].nexts = 1 /\ IsNull(req[s].user)
        /\ req[s].sent[1].code = "NOT_AUTHENTICATED"

\* C15: requireEmailVerification, once the request reaches it, calls next()
\* only if identity is attached and req.user.isEmailVerified is true; with
\* identity attached and the flag false it rejects with 403
\* EMAIL_NOT_VERIFIED and does not call next(); without identity it rejects
\* with 401 NOT_AUTHENTICATED.
C15_EmailGate ==
    \A s \in EmailReqs :
        LET r == req[s] IN
        /\ r.guardNexts <= r.nexts
        /\ r.guardNexts = 1 => (~IsNull(r.user) /\ r.user.isEmailVerified)
        /\ (r.pc = "done" /\ r.nexts = 1) =>
              /\ IsNull(r.user) =>
                    (r.guardNexts = 0 /\ r.sent = <<NotAuthenticated>>)
              /\ (~IsNull(r.user) /\ ~r.user.isEmailVerified) =>
                    /\ r.guardNexts = 0
                    /\ Len(r.sent) = 1
                    /\ r.sent[1].status = 403
                    /\ r.sent[1].code = "EMAIL_NOT_VERIFIED"
              /\ (~IsNull(r.user) /\ r.user.isEmailVerified) =>
                    (r.guardNexts = 1 /\ r.sent[1].status = 200)

\* C15 witness: a registered account whose email is not verified was
\* rejected by the gate with 403 EMAIL_NOT_VERIFIED.
C15_Witness ==
    \E s \in EmailReqs :
        /\ req[s].route = "workspaces"
        /\ req[s].pc = "done"
        /\ req[s].nexts = 1
        /\ ~IsNull(req[s].user) /\ ~req[s].user.isEmailVerified
        /\ req[s].guardNexts = 0
        /\ req[s].sent[1].code = "EMAIL_NOT_VERIFIED"

\* the other case of C15: a verified account passes
C15_WitnessVerified ==
    \E s \in EmailReqs :
        /\ req[s].pc = "done" /\ ~IsNull(req[s].user) /\ req[s].user.isEmailVerified
        /\ req[s].guardNexts = 1 /\ req[s].sent[1].status = 200

----------------------------------------------------------------------------
(* Properties of issued tokens over a session *)

\* a request is accepted in slot s in this step
Arrives(s) == left' = left - 1 /\ req'[s] # req[s]

\* the store answered the lookup of the request in slot s in this step
LookedUp(s, pc) == req[s].pc = pc /\ req'[s].pc # pc /\ ~req'[s].threw

\* the subject of a token is in the collection and active
SubjectActive(id) == id \in Ids /\ IsDoc(users[id]) /\ users[id].isActive

C16_WitnessRefresh ==
    /\ IsDoc(users[1])
    /\ users[1].lastLogin # NoDate
    /\ req[1].route = "refresh"
    /\ req[1].pc = "done"
    /\ req[1].body.refreshToken \in SeedTokens(env)
    /\ req[1].sent[1].status = 200

----------------------------------------------------------------------------
(* Properties of register *)

\* the documents of the collection
Docs(coll) == {i \in Ids : IsDoc(coll[i])}

\* C17: a register whose email already has a user record when the handler
\* looks it up is answered 409 EMAIL_EXISTS; in that step no record is
\* created or modified and no token pair is issued. A request whose email
\* had a record when it arrived is answered so whenever the store answers.
C17_TakenEmailRejected ==
    [][\A s \in Slots :
         /\ (/\ LookedUp(s, "register_findOne")
             /\ DuplicateKey(users, req[s].body.email))
               => /\ req'[s].pc = "done"
                  /\ req'[s].sent = <<PreCheckRejection>>
                  /\ req'[s].sent[1].status = 409
                  /\ req'[s].sent[1].code = "EMAIL_EXISTS"
                  /\ IsNull(req'[s].sent[1].tokens)
                  /\ IsNull(req'[s].tokens)
                  /\ users' = users
                  /\ issued' = issued
         /\ (/\ req'[s].route = "register"
             /\ req'[s].pc = "done"
             /\ ~req'[s].threw
             /\ req'[s].body.email \in req'[s].taken)
               => req'[s].sent[1].code = "EMAIL_EXISTS"]_vars

\* C17 witness: a register with the email of an existing account was
\* answered 409 EMAIL_EXISTS and the collection holds that one account.
C17_Witness ==
    \E s \in Registers :
        /\ req[s].pc = "done"
        /\ req[s].body.email \in req[s].taken
        /\ req[s].sent = <<PreCheckRejection>>
        /\ Cardinality({i \in Docs(users) : users[i].email = req[s].body.email}) = 1
        /\ IsNull(req[s].tokens)

\* C18: a register answered 201 has, in that step, created exactly one new
\* record and changed no other: the record has the request's email, the
\* hashed password, role 'user', isEmailVerified false and isActive true;
\* the response carries the safe view of that record (no password, no
\* devices) and a token pair whose access and refresh tokens verify as
\* access and refresh tokens with the new record's _id as userId.
C18_RegisterCreatesDefaultUser ==
    [][\A s \in Slots :
         (/\ req[s].pc = "register_create"
          /\ req'[s].pc = "done"
          /\ req'[s].sent[1].status = 201)
            => LET resp == req'[s].sent[1]
                   new == Docs(users') \ Docs(users)
               IN  /\ Cardinality(new) = 1
                   /\ \A i \in Ids \ new : users'[i] = users[i]
                   /\ \A i \in new :
                         LET u == users'[i] IN
                         /\ u._id = i
                         /\ u.email = req[s].body.email
                         /\ u.password = bcryptHash(req[s].body.password)
                         /\ u.password # req[s].body.password
                         /\ u.role = "user"
                         /\ ~u.isEmailVerified
                         /\ u.isActive
                         /\ u.lastLogin = NoDate
                         /\ resp.user = [f \in DOMAIN u \ {"password", "devices"} |-> u[f]]
                         /\ "password" \notin DOMAIN resp.user
                         /\ ~IsNull(resp.tokens)
                         /\ LET a == verifyAccessToken(resp.tokens.accessToken, env, now)
                                f == verifyRefreshToken(resp.tokens.refreshToken, env, now)
                            IN  /\ IsValid(a) /\ a.decoded.userId = i
                                /\ a.decoded.type = "access"
                                /\ IsValid(f) /\ f.decoded.userId = i
                                /\ f.decoded.type = "refresh"
                   /\ Len(req'[s].sent) = 1]_vars

\* C18 witness: a register was answered 201 and the record of the response
\* is in the collection.
C18_Witness ==
    \E s \in Registers :
        /\ req[s].pc = "done"
        /\ Created(req[s])
        /\ req[s].sent[1].user._id \in Docs(users)
        /\ users[req[s].sent[1].user._id].email = req[s].body.email
        /\ req[s].sent[1].tokens.accessToken.userId = req[s].sent[1].user._id

----------------------------------------------------------------------------
(* Properties of login *)

\* a login that arrived after a registration of its email had been answered
\* 201, and that the store answered
LoginAfterRegister(s, t) ==
    /\ s \in Registers /\ t \in Logins
    /\ Created(req[s])
    /\ req[t].body.email = req[s].body.email
    /\ req[t].body.email \in req[t].taken
    /\ req[t].pc = "done"
    /\ ~req[t].threw

\* the login was answered 200 with a pair whose access token verifies as an
\* access token of the registered user, and lastLogin was written
LoginSucceeded(s, t) ==
    LET resp == req[t].sent[1]
        id == req[s].sent[1].user._id
    IN  /\ Len(req[t].sent) = 1
        /\ resp.status = 200
        /\ ~IsNull(resp.tokens)
        /\ LET a == verifyAccessToken(resp.tokens.accessToken, env,
                                      resp.tokens.accessToken.iat)
           IN  IsValid(a) /\ a.decoded.userId = id /\ a.decoded.type = "access"
        /\ users[id].lastLogin = resp.tokens.accessToken.iat
        /\ users[id].lastLogin # NoDate

InvalidCredentials(r) ==
    /\ Len(r.sent) = 1
    /\ r.sent[1].status = 401
    /\ r.sent[1].code = "INVALID_CREDENTIALS"

\* C19: after a successful registration, a login with the same email and
\* the same password succeeds with 200, returns a pair whose access token
\* verifies as type access for that user, and updates lastLogin; a login
\* with the same email and any different password is answered 401
\* INVALID_CREDENTIALS.
C19_LoginAfterRegister ==
    \A s, t \in Slots :
        LoginAfterRegister(s, t) =>
            IF req[t].body.password = req[s].body.password
            THEN LoginSucceeded(s, t)
            ELSE InvalidCredentials(req[t])

\* the first half of C19 alone: the same credentials succeed
C19_SameCredentialsSucceed ==
    \A s, t \in Slots :
        (LoginAfterRegister(s, t) /\ req[t].body.password = req[s].body.password)
            => LoginSucceeded(s, t)

\* the second half of C19 for passwords that differ within bcrypt's input
C19_DifferentPrefixRejected ==
    \A s, t \in Slots :
        (/\ LoginAfterRegister(s, t)
         /\ bcryptInput(req[t].body.password) # bcryptInput(req[s].body.password))
            => InvalidCredentials(req[t])

\* a login after a registration with the same password has succeeded
C19_ReachedSame ==
    \E s, t \in Slots :
        /\ LoginAfterRegister(s, t)
        /\ req[t].body.password = req[s].body.password
        /\ LoginSucceeded(s, t)

\* C20: login tests the account state before the password. When the lookup
\* returns a user with isActive = false the request is answered 403
\* ACCOUNT_DEACTIVATED whatever password was submitted, comparePassword is
\* not called, no tokens are issued and neither lastLogin nor any other path
\* of the collection is written.
C20_DeactivatedBeforePassword ==
    [][\A s \in Slots :
         (/\ LookedUp(s, "login_findOne")
          /\ \E i \in Docs(users) :
                users[i].email = req[s].body.email /\ ~users[i].isActive)
            => /\ req'[s].pc = "done"
               /\ Len(req'[s].sent) = 1
               /\ req'[s].sent[1].status = 403
               /\ req'[s].sent[1].code = "ACCOUNT_DEACTIVATED"
               /\ ~req'[s].compared
               /\ IsNull(req'[s].tokens)
               /\ IsNull(req'[s].sent[1].tokens)
               /\ users' = users
               /\ issued' = issued]_vars

\* C20 witness: logins to a deactivated account were answered 403, one with
\* the account's password and one with another password.
C20_Witness ==
    \E s, t \in Logins :
        /\ s # t
        /\ req[s].pc = "done" /\ req[t].pc = "done"
        /\ req[s].body.email = req[t].body.email
        /\ IsDoc(req[s].doc) /\ ~req[s].doc.isActive
        /\ IsDoc(req[t].doc) /\ ~req[t].doc.isActive
        /\ bcryptCompare(req[s].body.password, req[s].doc.password)
        /\ ~bcryptCompare(req[t].body.password, req[t].doc.password)
        /\ req[s].sent[1].code = "ACCOUNT_DEACTIVATED"
        /\ req[t].sent = req[s].sent
        /\ ~req[s].compared /\ ~req[t].compared

----------------------------------------------------------------------------
(* Properties of refresh *)

\* refresh turned the presented token down with this code
RefreshRejected(code) ==
    /\ tk.out.resp # NoResponse
    /\ tk.out.resp.status = 401
    /\ tk.out.resp.code = code

C22_WitnessAccessToken ==
    /\ tk.caller = "refresh"
    /\ tk.origin = "access"
    /\ env.JWT_SECRET # env.JWT_REFRESH_SECRET
    /\ RefreshRejected("INVALID_REFRESH_TOKEN")

\* C22, equal secrets: an expired access token presented to refresh is
\* answered 401 REFRESH_TOKEN_EXPIRED when both secrets are the same string.
C22_WitnessSharedSecret ==
    /\ tk.caller = "refresh"
    /\ tk.origin = "access"
    /\ env.JWT_SECRET = env.JWT_REFRESH_SECRET
    /\ RefreshRejected("REFRESH_TOKEN_EXPIRED")

\* the pair a response carries: an access and a refresh token that verify,
\* now, for the user id
PairFor(resp, id) ==
    /\ ~IsNull(resp.tokens)
    /\ LET a == verifyAccessToken(resp.tokens.accessToken, env, now)
           f == verifyRefreshToken(resp.tokens.refreshToken, env, now)
       IN  /\ IsValid(a) /\ a.decoded.userId = id /\ a.decoded.type = "access"
           /\ IsValid(f) /\ f.decoded.userId = id /\ f.decoded.type = "refresh"

C21_WitnessDeactivated ==
    /\ req[1].route = "refresh"
    /\ req[1].pc = "done"
    /\ req[1].sent[1].code = "ACCOUNT_DEACTIVATED"

C21_WitnessDeleted ==
    /\ req[1].route = "refresh"
    /\ req[1].pc = "done"
    /\ req[1].sent[1].code = "USER_NOT_FOUND"

----------------------------------------------------------------------------
(* Properties of logout *)

\* the request was answered 200 by logout
LoggedOut(r) ==
    /\ r.route = "logout"
    /\ r.pc = "done"
    /\ r.nexts = 1
    /\ r.sent[1].status = 200

\* C23: logout keeps no state. In the step in which the gate's save returns
\* and logout runs, the request is answered 200 without tokens, no token is
\* issued or withdrawn, and the collection changes in nothing but the
\* lastLogin the gate itself saved. A request that arrives at the gate with
\* the token of an answered logout, before the token's exp, passes the
\* verification, and with its subject active it is let through as before.
C23_LogoutIsStateless ==
    [][\A s \in Slots :
         LET r == req[s]
             r2 == req'[s]
         IN  /\ (/\ r.route = "logout"
                 /\ LookedUp(s, "authMiddleware_save")
                 /\ IsDoc(users[r.userId]))
                   => /\ LoggedOut(r2)
                      /\ r2.sent = <<logout(r).sent[1]>>
                      /\ IsNull(r2.sent[1].tokens) /\ IsNull(r2.sent[1].user)
                      /\ issued' = issued
                      /\ users' = [users EXCEPT ![r.userId].lastLogin = r.doc.lastLogin]
             /\ (r2.route = "logout" /\ r2.nexts = 1) => LoggedOut(r2)
             /\ \A u \in Slots :
                  (/\ LoggedOut(req[u])
                   /\ Arrives(s)
                   /\ r2.route \in GatedRoutes
                   /\ r2.header = req[u].header
                   /\ now < r2.header.rest.exp)
                     => /\ r2.pc = "authMiddleware_findById"
                        /\ IsValid(r2.verification)
                        /\ r2.verification.decoded.userId = req[u].userId
                        /\ r2.sent = <<>>
             /\ \A u \in Slots :
                  (/\ LoggedOut(req[u])
                   /\ r.route \in GatedRoutes
                   /\ r.header = req[u].header
                   /\ LookedUp(s, "authMiddleware_findById")
                   /\ SubjectActive(req[u].userId))
                     => /\ r2.pc = "authMiddleware_save"
                        /\ r2.userId = req[u].userId
                        /\ r2.token = req[u].token]_vars

\* C23 witness: after a logout was answered 200, a request that arrived
\* later with the same token was let through the gate and answered 200.
C23_Witness ==
    /\ LoggedOut(req[1])
    /\ req[2].route = "me"
    /\ req[2].pc = "done"
    /\ req[2].ticket < req[1].ticket
    /\ 1 \notin req[2].peers
    /\ req[2].header = req[1].header
    /\ req[2].nexts = 1
    /\ req[2].sent[1].status = 200

----------------------------------------------------------------------------
(* Properties of update-password *)

\* the stored secrets are the same before and after the step
SecretsUnchanged ==
    \A i \in Ids :
       /\ IsDoc(users'[i]) = IsDoc(users[i])
       /\ IsDoc(users[i]) => users'[i].password = users[i].password

C24_WitnessInvalidNew ==
    /\ req[1].route = "password"
    /\ req[1].pc = "done"
    /\ req[1].body.newPassword = ShortPassword
    /\ req[1].sent[1] = PasswordError
    /\ IsDoc(users[1])
    /\ users[1].password = SeedUser.password

C24_WitnessGone ==
    /\ req[1].route = "password"
    /\ req[1].pc = "done"
    /\ req[1].sent[1].status = 404

\* the update in slot s was answered 200 and replaced the password by a
\* different one; the login in slot t arrived after that answer, with the
\* account's email, and the store answered it
LoginAfterUpdate(s, t) ==
    /\ req[s].route = "password"
    /\ req[s].pc = "done"
    /\ req[s].sent[1].status = 200
    /\ req[s].body.newPassword # req[s].body.currentPassword
    /\ req[t].route = "login"
    /\ req[t].ticket < req[s].ticket
    /\ s \notin req[t].peers
    /\ req[t].pc = "done"
    /\ ~req[t].threw
    /\ req[t].body.email = req[s].doc.email

\* the update's 200 carries a pair for the user, issued when it was sent
FreshPair(r) ==
    /\ ~IsNull(r.sent[1].tokens)
    /\ LET pair == r.sent[1].tokens
           a == verifyAccessToken(pair.accessToken, env, pair.accessToken.iat)
           f == verifyRefreshToken(pair.refreshToken, env, pair.refreshToken.iat)
       IN  /\ IsValid(a) /\ a.decoded.userId = r.userId
           /\ IsValid(f) /\ f.decoded.userId = r.userId
           /\ pair = generateTokenPair(r.userId, env, pair.accessToken.iat)

LoginAccepted(r) ==
    /\ Len(r.sent) = 1
    /\ r.sent[1].status = 200
    /\ ~IsNull(r.sent[1].tokens)

\* C25: after an update-password from P to a different Q was answered 200,
\* the answer carries a fresh pair, a login with the account's email and Q
\* is answered 200, and a login with the email and P is answered 401
\* INVALID_CREDENTIALS.
C25_OldPasswordRejected ==
    \A s, t \in Slots :
        LoginAfterUpdate(s, t) =>
            /\ FreshPair(req[s])
            /\ req[t].body.password = req[s].body.newPassword
                  => LoginAccepted(req[t])
            /\ req[t].body.password = req[s].body.currentPassword
                  => InvalidCredentials(req[t])

\* the part of C25 that holds: the pair, the login with Q, and the
\* rejection of P when P and Q differ within the 72 bytes bcrypt reads
C25_NewPasswordAccepted ==
    \A s, t \in Slots :
        LoginAfterUpdate(s, t) =>
            /\ FreshPair(req[s])
            /\ req[t].body.password = req[s].body.newPassword
                  => LoginAccepted(req[t])
            /\ (/\ req[t].body.password = req[s].body.currentPassword
                /\ bcryptInput(req[s].body.currentPassword)
                      # bcryptInput(req[s].body.newPassword))
                  => InvalidCredentials(req[t])

\* reached: after an update, a login with the new password answered 200 and
\* a login with the old password answered 401
C25_ReachedNew ==
    \E s, t \in Slots :
        /\ LoginAfterUpdate(s, t)
        /\ req[t].body.password = req[s].body.newPassword
        /\ LoginAccepted(req[t])

C25_ReachedOld ==
    \E s, t \in Slots :
        /\ LoginAfterUpdate(s, t)
        /\ req[t].body.password = req[s].body.currentPassword
        /\ InvalidCredentials(req[t])

----------------------------------------------------------------------------
(* Properties of the response bodies *)

\* the names of the paths of the user object in a response body
UserFields(resp) == IF IsNull(resp.user) THEN {} ELSE DOMAIN resp.user

\* the routes of the auth router
AuthRoutes == {"register", "login", "refresh", "me", "logout", "password"}

\* C26: no response of register, login, refresh, GET /me, logout or
\* update-password has a password path in its body: the body is made of
\* status, code, message, hint, user and tokens, and the user object it
\* carries, if any, has no password path.
C26_NoPasswordInResponses ==
    \A s \in Slots :
       req[s].route \in AuthRoutes =>
          \A k \in 1..Len(req[s].sent) :
             LET resp == req[s].sent[k] IN
             /\ "password" \notin UserFields(resp)
             /\ DOMAIN resp = {"status", "code", "message", "hint", "user", "tokens"}
             /\ ~IsNull(resp.tokens) =>
                   DOMAIN resp.tokens =
                      {"accessToken", "refreshToken", "expiresIn", "tokenType"}

\* C26 witness: GET /me was answered 200 with a user object.
C26_Witness ==
    /\ req[1].route = "me"
    /\ req[1].pc = "done"
    /\ req[1].sent[1].status = 200
    /\ UserFields(req[1].sent[1]) # {}
    /\ "email" \in UserFields(req[1].sent[1])

\* C26, the other bodies with a user object: register's 201 and login's 200
C26_WitnessRegister ==
    /\ req[1].route = "register"
    /\ req[1].pc = "done"
    /\ req[1].sent[1].status = 201
    /\ "email" \in UserFields(req[1].sent[1])

C26_WitnessLogin ==
    /\ req[1].route = "login"
    /\ req[1].pc = "done"
    /\ req[1].sent[1].status = 200
    /\ "email" \in UserFields(req[1].sent[1])

\* the identity a request carries: the paths of req.user as JSON shows them
AttachedFields(r) == IF IsNull(r.user) THEN {} ELSE DOMAIN toJSON(r.user)

\* C27: the user object the gate attaches to a request, and the one GET /me
\* sends, is the safe view: it has neither the password path nor the
\* devices path.
C27_AttachedIsSafeView ==
    \A s \in GateReqs :
       /\ AttachedFields(req[s]) \cap {"password", "devices"} = {}
       /\ \A k \in 1..Len(req[s].sent) :
             UserFields(req[s].sent[k]) \cap {"password", "devices"} = {}

\* the part of C27 that holds: the attached object and the body of GET /me
\* are without the password, and the attached object is the document of the
\* token's subject
C27_AttachedHasNoSecret ==
    \A s \in GateReqs :
       /\ "password" \notin AttachedFields(req[s])
       /\ ~IsNull(req[s].user) =>
             /\ req[s].user.password = NotSelected
             /\ req[s].user._id = req[s].verification.decoded.userId
       /\ \A k \in 1..Len(req[s].sent) :
             "password" \notin UserFields(req[s].sent[k])

\* reached: GET /me answered 200 with a user object that has the devices
\* path and no password path
C27_ReachedMe ==
    /\ req[1].route = "me"
    /\ req[1].pc = "done"
    /\ req[1].sent[1].status = 200
    /\ "devices" \in UserFields(req[1].sent[1])
    /\ "password" \notin UserFields(req[1].sent[1])

----------------------------------------------------------------------------
(* Properties of the stored secret *)

\* register created a user in this step / update-password saved in this step
RegisterCreated(s) ==
    /\ req[s].pc = "register_create"
    /\ req'[s].pc = "done"
    /\ req'[s].sent[1].status = 201

PasswordSaved(s) ==
    /\ req[s].pc = "updatePassword_save"
    /\ req'[s].pc = "done"
    /\ req'[s].sent[1].status = 200

\* the document's secret is the hash, taken once, of the raw password, and
\* not the raw password
HashedOnce(doc, raw) ==
    /\ doc.password = bcryptHash(raw)
    /\ doc.password # raw
    /\ doc.password # bcryptHash(bcryptHash(raw))
    /\ comparePassword(doc, raw)

\* comparePassword accepts the raw password and no other
OnlyExact(doc, raw) ==
    \A c \in AllPasswords \cup {ShortPassword} : comparePassword(doc, c) <=> c = raw

\* C28: a stored secret is written only by register's create and by
\* update-password's save, and what they store is the hash, applied once, of
\* the raw password of the request, never the raw password; every other
\* step, the lastLogin saves of login and of the gate included, leaves
\* every stored secret as it was; and comparePassword on the stored
\* document is true for that exact raw password only.
C28_SecretIsHashOfLastPassword ==
    [][/\ \A s \in Slots :
            /\ RegisterCreated(s) =>
                  \A i \in Docs(users') \ Docs(users) :
                     /\ HashedOnce(users'[i], req[s].body.password)
                     /\ OnlyExact(users'[i], req[s].body.password)
            /\ PasswordSaved(s) =>
                  /\ HashedOnce(users'[req[s].userId], req[s].body.newPassword)
                  /\ OnlyExact(users'[req[s].userId], req[s].body.newPassword)
            /\ PasswordSaved(s) =>
                  \A i \in Docs(users) \ {req[s].userId} :
                     users'[i].password = users[i].password
       /\ (\A s \in Slots : ~PasswordSaved(s)) =>
             \A i \in Docs(users) : users'[i].password = users[i].password]_vars

\* comparePassword accepts exactly the passwords with the same first 72
\* bytes as the raw password
OnlySamePrefix(doc, raw) ==
    \A c \in AllPasswords \cup {ShortPassword} :
       comparePassword(doc, c) <=> bcryptInput(c) = bcryptInput(raw)

\* the part of C28 that holds: as C28, with comparePassword true exactly for
\* the passwords that agree with the raw password on its first 72 bytes
C28_SecretIsHashOfPrefix ==
    [][/\ \A s \in Slots :
            /\ RegisterCreated(s) =>
                  \A i \in Docs(users') \ Docs(users) :
                     /\ HashedOnce(users'[i], req[s].body.password)
                     /\ OnlySamePrefix(users'[i], req[s].body.password)
            /\ PasswordSaved(s) =>
                  /\ HashedOnce(users'[req[s].userId], req[s].body.newPassword)
                  /\ OnlySamePrefix(users'[req[s].userId], req[s].body.newPassword)
            /\ PasswordSaved(s) =>
                  \A i \in Docs(users) \ {req[s].userId} :
                     users'[i].password = users[i].password
       /\ (\A s \in Slots : ~PasswordSaved(s)) =>
             \A i \in Docs(users) : users'[i].password = users[i].password]_vars

\* reached: an account whose password was updated and that logged in or
\* passed the gate afterwards holds the hash of the new password
C28_ReachedSavedAround ==
    /\ IsDoc(users[1])
    /\ users[1].password \notin {SeedUser.password, SeedLongUser.password}
    /\ req[1].route = "login"
    /\ req[1].pc = "done"
    /\ req[1].sent[1].status = 200
    /\ users[1].password = bcryptHash(req[1].body.password)

\* reached: a registration with a password longer than 72 bytes stored a
\* secret that another password matches
C28_ReachedLong ==
    /\ req[1].route = "register"
    /\ req[1].pc = "done"
    /\ req[1].sent[1].status = 201
    /\ req[1].body.password \in LongPasswords
    /\ \E c \in LongPasswords :
          /\ c # req[1].body.password
          /\ comparePassword(users[req[1].sent[1].user._id], c)

----------------------------------------------------------------------------
(* Properties of email normalisation *)

\* the strings that are the address but for letter case and surrounding
\* blanks
VariantsOf(email) ==
    IF email = "a@x.com"
    THEN {"a@x.com", "A@X.com", " a@x.com ", " A@x.COM ", "A@x.COM", " a@x.com"}
    ELSE {email}

\* the request in slot s carried a variant of an address that was registered
\* when it arrived, and the store answered it
VariantOfTaken(s) ==
    /\ req[s].pc = "done"
    /\ ~req[s].threw
    /\ \E e \in req[s].taken : req[s].raw \in VariantsOf(e)

\* C29: emails are lowercased and trimmed before they are stored and looked
\* up. Every stored email is in normal form; a registration whose email is
\* a registered one but for letter case or surrounding blanks is answered
\* 409 EMAIL_EXISTS and creates nothing; a login with such a variant looks
\* up the user registered under the address: with that user's password and
\* the account active it is answered 200 with that user.
C29_EmailsNormalised ==
    /\ \A i \in Docs(users) :
          /\ users[i].email \in Emails
          /\ \A j \in Docs(users) : users[j].email = users[i].email => i = j
    /\ \A s \in Slots :
          /\ (req[s].route \in {"register", "login"} /\ req[s].pc # "validate"
              /\ req[s].sent # <<ValidationFailed>>)
                => /\ req[s].raw \in VariantsOf(req[s].body.email)
                   /\ req[s].body.email \in Emails
          /\ (req[s].route = "register" /\ VariantOfTaken(s))
                => /\ Len(req[s].sent) = 1
                   /\ req[s].sent[1].status = 409
                   /\ req[s].sent[1].code = "EMAIL_EXISTS"
          /\ (req[s].route = "login" /\ VariantOfTaken(s))
                => /\ IsDoc(req[s].doc)
                   /\ req[s].raw \in VariantsOf(req[s].doc.email)
                   /\ users[req[s].doc._id].email = req[s].doc.email
                   /\ (req[s].doc.isActive
                       /\ comparePassword(req[s].doc, req[s].body.password))
                         => /\ Len(req[s].sent) = 1
                            /\ req[s].sent[1].status = 200
                            /\ req[s].sent[1].user._id = req[s].doc._id

\* C29 witness: a registration of " A@x.COM " was answered 409 EMAIL_EXISTS
\* because a@x.com was registered.
C29_Witness ==
    /\ req[1].route = "register"
    /\ req[1].raw = " A@x.COM "
    /\ VariantOfTaken(1)
    /\ req[1].sent[1].code = "EMAIL_EXISTS"
    /\ Cardinality(Docs(users)) = 1

\* C29, login: a login with "A@X.com" was answered 200 with the user
\* registered as a@x.com.
C29_WitnessLogin ==
    /\ req[1].route = "login"
    /\ req[1].raw = "A@X.com"
    /\ VariantOfTaken(1)
    /\ req[1].sent[1].status = 200
    /\ req[1].sent[1].user.email = "a@x.com"

\* C29, storage: an account registered as " A@x.COM " is stored as a@x.com.
C29_WitnessStored ==
    /\ req[1].route = "register"
    /\ req[1].raw = " A@x.COM "
    /\ req[1].pc = "done"
    /\ req[1].sent[1].status = 201
    /\ req[1].sent[1].user.email = "a@x.com"

----------------------------------------------------------------------------
(* Properties of the store calls *)

\* where a request stands when it awaits a store write
WritePcs == {"register_create", "login_save", "authMiddleware_save",
             "updatePassword_save"}

\* the awaits of a request in the order the code reaches them
PcRank(pc) ==
    CASE pc \in {"idle", "validate"} -> 0
      [] pc \in {"register_findOne", "login_findOne", "authMiddleware_findById",
                 "refreshToken_findById"} -> 1
      [] pc \in {"register_create", "login_save", "authMiddleware_save"} -> 2
      [] pc = "updatePassword_findById" -> 3
      [] pc = "updatePassword_save" -> 4
      [] OTHER -> 5

\* a store call of the request in slot s failed in this step
Failed(s) == InFlight(req[s]) /\ ~req[s].threw /\ req'[s].threw

C30_WitnessRegister ==
    /\ req[1].route = "register"
    /\ req[1].pc = "done"
    /\ req[1].threw
    /\ req[1].sent[1].code = "REGISTRATION_ERROR"
    /\ \A i \in Docs(users) : users[i].email # req[1].body.email

----------------------------------------------------------------------------
(* Properties of the validation middleware *)

\* the body of a POST /register request as it arrived fails registerSchema:
\* the email is no address, the password is short, empty or has no
\* upper-case letter, or the name is a single letter
BadRegisterBody(r) ==
    \/ r.raw = "nobody"
    \/ r.body.password \in {ShortPassword, WeakPassword, NoPassword}
    \/ r.body.name = "A"

\* the body of a POST /login request fails loginSchema: the email is no
\* address or the password is empty
BadLoginBody(r) ==
    \/ r.raw = "nobody"
    \/ r.body.password = NoPassword

\* C31: a register or login request whose body fails the route's schema is
\* answered 400 'Validation failed' in the step it arrives, by the validation
\* middleware: the handler is not entered (no lookup is pending, no document
\* was loaded), the collection is not written, no token is issued, and the
\* request takes no further step.
C31_InvalidBodyStopsAtValidation ==
    [][\A s \in Slots :
         LET r == req[s]
             r2 == req'[s]
         IN  /\ (/\ Arrives(s)
                 /\ \/ r2.route = "register" /\ BadRegisterBody(r2)
                    \/ r2.route = "login" /\ BadLoginBody(r2))
                   => /\ r2.pc = "done"
                      /\ r2.sent = <<ValidationFailed>>
                      /\ r2.sent[1].status = 400
                      /\ IsNull(r2.doc) /\ IsNull(r2.tokens) /\ ~r2.compared
                      /\ users' = users
                      /\ issued' = issued
             /\ (/\ r.route \in {"register", "login"}
                 /\ r.sent = <<ValidationFailed>>
                 /\ r2 # r)
                   => Arrives(s)]_vars

\* C31 witness: a registration with a registered address and a password
\* without an upper-case letter was answered 400 and the account is as it was
\* registered.
C31_Witness ==
    /\ req[1].route = "register"
    /\ req[1].raw = "a@x.com"
    /\ req[1].body.password = WeakPassword
    /\ req[1].body.name = "Ann"
    /\ req[1].sent = <<ValidationFailed>>
    /\ users[1] = SeedUser

\* C31, login: a login with the account's address and an empty password was
\* answered 400 and lastLogin was not set.
C31_WitnessLogin ==
    /\ req[1].route = "login"
    /\ req[1].raw = "a@x.com"
    /\ req[1].body.password = NoPassword
    /\ req[1].sent = <<ValidationFailed>>
    /\ users[1] = SeedUser

----------------------------------------------------------------------------
(* Properties of the token pair's expiresIn *)

\* the pairs sent to clients by the requests of the run
PairsSent ==
    {req[s].sent[k].tokens :
        <<s, k>> \in {x \in Slots \X (1..2) :
                        /\ InFlight(req[x[1]]) \/ req[x[1]].pc = "done"
                        /\ x[2] <= Len(req[x[1]].sent)
                        /\ ~IsNull(req[x[1]].sent[x[2]].tokens)}}

\* the seconds from an access token's issue to its expiry
Lifetime(token) == token.exp - token.iat

\* C33: the expiresIn of every pair sent equals the lifetime of the pair's
\* access token, whatever access-token expiry is configured.
C33_ExpiresInIsLifetime ==
    \A pair \in PairsSent : pair.expiresIn = Lifetime(pair.accessToken)

\* the part of C33 that holds: with JWT_EXPIRE unset (or set to 15 minutes)
\* expiresIn is the lifetime; in every configuration it is 900
C33_ExpiresInIsDefaultLifetime ==
    \A pair \in PairsSent :
        /\ pair.expiresIn = 900
        /\ Timespan(AccessExpiresIn(env)) = 900
              => pair.expiresIn = Lifetime(pair.accessToken)

\* reached: a pair was sent under the default expiry; a pair was sent under
\* a configured expiry of one second
C33_ReachedDefault ==
    /\ env.JWT_EXPIRE = Unset
    /\ \E pair \in PairsSent : Lifetime(pair.accessToken) = 900

C33_ReachedConfigured ==
    /\ env.JWT_EXPIRE # Unset
    /\ \E pair \in PairsSent : Lifetime(pair.accessToken) = 1

----------------------------------------------------------------------------
(* Properties of the gate's Attach step *)

\* the routes of the auth router behind authMiddleware
ProtectedRoutes == GatedRoutes \cup {"password"}

\* the gate of the request in slot s calls next() in this step
GateCallsNext(s) ==
    /\ InFlight(req[s])
    /\ req[s].route \in ProtectedRoutes
    /\ req'[s].route = req[s].route
    /\ req'[s].nexts > req[s].nexts

C32_WitnessFailedSave ==
    /\ req[1].route = "me"
    /\ req[1].pc = "done"
    /\ req[1].threw
    /\ ~IsNull(req[1].user)
    /\ req[1].nexts = 0
    /\ req[1].sent = <<GateError>>
    /\ IsDoc(users[req[1].userId])
    /\ users[req[1].userId].lastLogin # req[1].user.lastLogin

----------------------------------------------------------------------------
(* Properties of the gate's outcome *)

\* where a request stands while authMiddleware awaits the store
GatePcs == {"authMiddleware_findById", "authMiddleware_save"}

\* the responses authMiddleware sends, by status and code
GateAnswers ==
    {<<401, "NO_TOKEN">>, <<401, "INVALID_FORMAT">>, <<401, "EMPTY_TOKEN">>,
     <<401, "TOKEN_EXPIRED">>, <<401, "INVALID_TOKEN">>, <<401, "USER_NOT_FOUND">>,
     <<403, "ACCOUNT_DEACTIVATED">>, <<500, "AUTH_ERROR">>}

IsGateAnswer(resp) == <<resp.status, resp.code>> \in GateAnswers

\* C34: authMiddleware produces exactly one outcome per request. While it
\* awaits the store it has neither answered nor called next(); once it is
\* through, either it called next() once and sent no response of its own
\* (the one response of the request is the handler's), or it did not call
\* next() and sent exactly one response. When the save of lastLogin fails
\* after the identity was attached, the outcome is the single 500
\* AUTH_ERROR response.
C34_ExactlyOneOutcome ==
    \A s \in Slots :
        LET r == req[s] IN
        r.route \in ProtectedRoutes =>
            /\ r.nexts \in {0, 1}
            /\ r.pc \in GatePcs => r.nexts = 0 /\ r.sent = <<>>
            /\ r.pc \notin GatePcs =>
                  \/ /\ r.nexts = 1
                     /\ Len(r.sent) <= 1
                     /\ \A k \in 1..Len(r.sent) : ~IsGateAnswer(r.sent[k])
                  \/ /\ r.nexts = 0
                     /\ r.pc = "done"
                     /\ Len(r.sent) = 1
                     /\ IsGateAnswer(r.sent[1])
            /\ (r.route \in GatedRoutes /\ r.threw)
                  => r.nexts = 0 /\ r.sent = <<GateError>>

\* C34 witness: the save of lastLogin of a POST /logout failed after the
\* identity was attached; the request has the single answer 500 AUTH_ERROR
\* and next() was not called.
C34_Witness ==
    /\ req[1].route = "logout"
    /\ req[1].pc = "done"
    /\ req[1].threw
    /\ ~IsNull(req[1].user) /\ req[1].userId # 0 /\ ~IsNull(req[1].token)
    /\ req[1].nexts = 0
    /\ req[1].sent = <<GateError>>

\* C34, the two other outcomes: next() was called once and the handler
\* answered; the gate rejected the request with one response.
C34_WitnessNext ==
    /\ req[1].route = "logout"
    /\ req[1].pc = "done"
    /\ req[1].nexts = 1
    /\ Len(req[1].sent) = 1
    /\ req[1].sent[1].status = 200

C34_WitnessRejected ==
    /\ req[1].route = "logout"
    /\ req[1].pc = "done"
    /\ req[1].nexts = 0
    /\ Len(req[1].sent) = 1
    /\ req[1].sent[1].code = "ACCOUNT_DEACTIVATED"

----------------------------------------------------------------------------
(* Properties of issuing pairs while accounts are deactivated *)

\* the request in slot s is answered with a token pair in this step
SendsPair(s) ==
    /\ InFlight(req[s])
    /\ req'[s].pc = "done"
    /\ req'[s].sent # <<>>
    /\ ~IsNull(req'[s].sent[Len(req'[s].sent)].tokens)

\* the subject of the pair in the answer of the request r
PairSubject(r) == r.sent[Len(r.sent)].tokens.accessToken.userId

\* C35: no pair is issued for a user whose isActive flag is false in the
\* store when the pair is issued, whatever register, login, refresh,
\* update-password and deactivation steps interleave.
C35_NoPairForInactive ==
    [][\A s \in Slots :
         SendsPair(s) =>
            /\ IsDoc(users'[PairSubject(req'[s])])
            /\ users'[PairSubject(req'[s])].isActive]_vars

\* the part of C35 that holds: register and refresh answer with a pair only
\* for a user that is active in the store at that moment; login answers with
\* a pair only for a user that was active when login looked it up;
\* update-password only for a user that was active when the gate looked it up
C35_PairOnlyIfActiveAtCheck ==
    [][\A s \in Slots :
         LET r2 == req'[s] IN
         SendsPair(s) =>
            /\ r2.route \in {"register", "refresh"}
                  => /\ IsDoc(users'[PairSubject(r2)])
                     /\ users'[PairSubject(r2)].isActive
            /\ r2.route = "login" => r2.doc.isActive
            /\ r2.route = "password" => r2.user.isActive]_vars

\* reached: a login and an update-password were answered 200 with a pair
\* for an account that was deactivated while the request was in flight
C35_ReachedLogin ==
    /\ req[1].route = "login"
    /\ req[1].pc = "done"
    /\ req[1].sent[1].status = 200
    /\ ~IsNull(req[1].sent[1].tokens)
    /\ IsDoc(users[req[1].doc._id])
    /\ ~users[req[1].doc._id].isActive

C35_ReachedPassword ==
    /\ req[1].route = "password"
    /\ req[1].pc = "done"
    /\ req[1].sent[1].status = 200
    /\ ~IsNull(req[1].sent[1].tokens)
    /\ IsDoc(users[req[1].userId])
    /\ ~users[req[1].userId].isActive
    /\ users[req[1].userId].password = bcryptHash(req[1].body.newPassword)

----------------------------------------------------------------------------
(* Properties of concurrent saves of one document *)

\* where a request stands when it awaits the save of its lastLogin update
LastLoginSavePcs == {"login_save", "authMiddleware_save"}

\* the save of lastLogin of the request in slot s succeeds in this step
SavesLastLogin(s) ==
    /\ req[s].pc \in LastLoginSavePcs
    /\ req'[s] # req[s]
    /\ ~req'[s].threw

\* update-password of the request in slot s commits in this step
CommitsPassword(s) ==
    /\ req[s].pc = "updatePassword_save"
    /\ req'[s] # req[s]
    /\ ~req'[s].threw

\* C36: a lastLogin save never writes back a stale secret. The save of
\* lastLogin by login or by the gate changes the lastLogin of the request's
\* user and no other path of any document, whatever secret the request
\* loaded; the commit of update-password stores the hash of the new
\* password; and a stored secret changes in no other step. So after an
\* update-password commit and a lastLogin save of a request that loaded the
\* user before the commit, in either order, the stored secret is the hash of
\* the new password.
C36_LastLoginSaveKeepsSecret ==
    [][/\ \A s \in Slots :
            LET r == req[s] IN
            /\ SavesLastLogin(s)
                  => /\ users' = [users EXCEPT ![r.doc._id].lastLogin = r.doc.lastLogin]
                     /\ users'[r.doc._id].password = users[r.doc._id].password
            /\ CommitsPassword(s)
                  => users'[r.userId].password = bcryptHash(r.body.newPassword)
       /\ \A i \in Ids :
            (/\ IsDoc(users[i]) /\ IsDoc(users'[i])
             /\ users'[i].password # users[i].password)
               => \E s \in Slots : CommitsPassword(s) /\ req[s].userId = i]_vars

\* C36 witness: a login loaded the user with the old secret, update-password
\* then committed a different password, and the login's save of lastLogin,
\* made after that commit, was answered 200; the stored secret is the hash
\* of the new password.
C36_Witness ==
    /\ req[1].route = "password"
    /\ req[1].pc = "done"
    /\ req[1].sent[1].status = 200
    /\ req[2].route = "login"
    /\ req[2].pc = "done"
    /\ req[2].sent[1].status = 200
    /\ req[2].doc._id = req[1].userId
    /\ req[2].doc.password # bcryptHash(req[1].body.newPassword)
    /\ req[2].secretAtSave = bcryptHash(req[1].body.newPassword)
    /\ users[req[1].userId].password = bcryptHash(req[1].body.newPassword)
    /\ users[req[1].userId].lastLogin = req[2].doc.lastLogin

\* C36, the gate: GET /me arrived while the update-password request was in
\* flight and saved its lastLogin after the commit.
C36_WitnessGate ==
    /\ req[1].route = "password"
    /\ req[1].pc = "done"
    /\ req[1].sent[1].status = 200
    /\ req[1].body.newPassword # req[1].body.currentPassword
    /\ req[2].route = "me"
    /\ req[2].pc = "done"
    /\ req[2].sent[1].status = 200
    /\ req[2].userId = req[1].userId
    /\ 1 \in req[2].peers
    /\ req[2].secretAtSave = bcryptHash(req[1].body.newPassword)
    /\ users[req[1].userId].password = bcryptHash(req[1].body.newPassword)

----------------------------------------------------------------------------
(* Properties of the stored lastLogin *)

\* C37: the stored lastLogin of a user never moves backwards: no step
\* replaces it by an earlier timestamp.
C37_LastLoginMonotone ==
    [][\A i \in Ids :
         (IsDoc(users[i]) /\ IsDoc(users'[i]))
            => users'[i].lastLogin >= users[i].lastLogin]_vars

\* the part of C37 that holds: a save stores the timestamp its request took
\* when its lookup returned, never one of the future; and the stored
\* lastLogin moves backwards only when the saving request took its timestamp
\* before another request's save, that is, with another save between its
\* lookup and its own save
C37_SavesOwnTimestamp ==
    [][\A s \in Slots :
         LET r == req[s] IN
         SavesLastLogin(s) =>
            /\ users'[r.doc._id].lastLogin = r.doc.lastLogin
            /\ r.doc.lastLogin <= now
            /\ users'[r.doc._id].lastLogin < users[r.doc._id].lastLogin
                  => \E t \in Slots \ {s} :
                        /\ req[t].route \in GatedRoutes \cup {"login"}
                        /\ req[t].pc = "done"
                        /\ req[t].secretAtSave # <<>>
                        /\ req[t].doc._id = r.doc._id
                        /\ req[t].doc.lastLogin = users[r.doc._id].lastLogin]_vars

\* reached: the stored lastLogin is earlier than the timestamp another
\* answered request saved before
C37_ReachedBackwards ==
    /\ req[1].route \in GatedRoutes /\ req[2].route \in GatedRoutes
    /\ req[1].pc = "done" /\ req[2].pc = "done"
    /\ req[1].sent[1].status = 200 /\ req[2].sent[1].status = 200
    /\ req[1].userId = req[2].userId
    /\ req[1].user.lastLogin < req[2].user.lastLogin
    /\ users[req[1].userId].lastLogin = req[1].user.lastLogin

----------------------------------------------------------------------------
(* Properties of rejected requests *)

\* the request in slot s is answered in this step
Answered(s) ==
    /\ req'[s] # req[s]
    /\ req'[s].pc = "done"
    /\ InFlight(req[s]) \/ Arrives(s)

\* the answer is a rejection by login (401/403), by refresh (400/401/403) or
\* by the gate (401/403, next() not called)
IsRejection(r) ==
    /\ Len(r.sent) = 1
    /\ \/ r.route = "login" /\ r.sent[1].status \in {401, 403}
       \/ r.route = "refresh" /\ r.sent[1].status \in {400, 401, 403}
       \/ /\ r.route \in ProtectedRoutes
          /\ r.nexts = 0
          /\ r.sent[1].status \in {401, 403}

\* C38: a request rejected by login, by refresh or by the gate leaves every
\* user record as it was and issues no token: the step that rejects it
\* changes neither the collection nor the tokens sent to clients, its answer
\* carries no user and no pair, and the request made no save and generated
\* no pair before it (it was rejected on arrival or when its lookup
\* returned).
C38_RejectionChangesNothing ==
    [][\A s \in Slots :
         LET r == req[s]
             r2 == req'[s]
         IN  /\ (Answered(s) /\ IsRejection(r2))
                   => /\ users' = users
                      /\ issued' = issued
                      /\ IsNull(r2.sent[1].tokens) /\ IsNull(r2.sent[1].user)
                      /\ IsNull(r2.tokens)
                      /\ r2.secretAtSave = <<>>
                      /\ ~r2.threw
                      /\ \/ Arrives(s)
                         \/ r.pc \in {"login_findOne", "refreshToken_findById",
                                      "authMiddleware_findById"}
             /\ (/\ InFlight(r) /\ r2 # r
                 /\ r.pc \in {"login_findOne", "refreshToken_findById",
                              "authMiddleware_findById"})
                   => users' = users
             /\ (Arrives(s) /\ r2.route \in {"login", "refresh"} \cup ProtectedRoutes)
                   => users' = users /\ issued' = issued]_vars

\* C38 witness: a login with a wrong password for an account that is stored
\* and active was answered 401 and the account is as it was registered.
C38_Witness ==
    /\ req[1].route = "login"
    /\ req[1].pc = "done"
    /\ req[1].compared
    /\ req[1].sent[1].status = 401
    /\ users[1] = SeedUser

\* C38, refresh and the gate: a refresh with an expired token (401), a
\* refresh for a deactivated account (403) and a GET /me for a deactivated
\* account (403) were answered, and lastLogin of the account is not set.
C38_WitnessRefreshExpired ==
    /\ req[1].route = "refresh"
    /\ req[1].pc = "done"
    /\ req[1].sent[1].code = "REFRESH_TOKEN_EXPIRED"
    /\ users[1] = SeedUser

C38_WitnessRefresh ==
    /\ req[1].route = "refresh"
    /\ req[1].pc = "done"
    /\ req[1].sent[1].status = 403
    /\ users[1] = [SeedUser EXCEPT !.isActive = FALSE]

C38_WitnessGate ==
    /\ req[1].route = "me"
    /\ req[1].pc = "done"
    /\ req[1].sent[1].status = 403
    /\ users[1] = [SeedUser EXCEPT !.isActive = FALSE]

----------------------------------------------------------------------------
(* Properties of the protected routes *)

\* where a request stands while updatePassword awaits the store
HandlerPcs == {"updatePassword_findById", "updatePassword_save"}

\* a handler of a protected route runs or ran for the request: it awaits the
\* store, or the request's answer is not one of the gate's
HandlerRan(r) ==
    /\ r.route \in ProtectedRoutes
    /\ \/ r.pc \in HandlerPcs
       \/ r.pc = "done" /\ \E k \in 1..Len(r.sent) : ~IsGateAnswer(r.sent[k])

\* C39: the handlers of GET /me, POST /logout and PUT /password run only
\* after authMiddleware has passed for the same request. Whenever one ran,
\* the gate had called next() once, the header's token verified as an access
\* token, req.userId is the token's subject and req.user is that user's
\* document, active, as the gate loaded it; in the step the gate's lookup
\* returned and the gate went on, that user was in the collection and
\* active. The commit of update-password changes the secret of the user
\* req.userId and nothing else in the collection.
C39_HandlersBehindGate ==
    [][/\ \A s \in Slots :
            LET r == req[s]
                r2 == req'[s]
            IN  /\ HandlerRan(r2)
                      => /\ r2.nexts = 1
                         /\ IsValid(r2.verification)
                         /\ r2.token = r2.header.rest
                         /\ r2.userId = r2.verification.decoded.userId
                         /\ ~IsNull(r2.user)
                         /\ r2.user._id = r2.userId
                         /\ r2.user.isActive
                         /\ r2.user.password = NotSelected
                /\ (LookedUp(s, "authMiddleware_findById")
                    /\ r2.pc = "authMiddleware_save")
                      => /\ IsDoc(users[r2.userId])
                         /\ users[r2.userId].isActive
                         /\ r2.user = [WithoutPassword(users[r2.userId])
                                         EXCEPT !.lastLogin = now]
                /\ CommitsPassword(s)
                      => /\ r.userId = r.user._id
                         /\ users' = [users EXCEPT ![r.userId].password =
                                                     bcryptHash(r.body.newPassword)]
                /\ (r.route = "password" /\ r2 # r /\ ~Arrives(s)
                    /\ users' # users /\ ~CommitsPassword(s))
                      => /\ r.pc = "authMiddleware_save"
                         /\ users' = [users EXCEPT ![r.userId].lastLogin =
                                                     r.doc.lastLogin]]_vars

\* C39 witness: update-password committed for the authenticated user while
\* the account had been deactivated after the gate's lookup; only its secret
\* changed.
C39_Witness ==
    /\ req[1].route = "password"
    /\ req[1].pc = "done"
    /\ req[1].nexts = 1
    /\ req[1].sent[1].status = 200
    /\ req[1].body.newPassword # req[1].body.currentPassword
    /\ req[1].user.isActive
    /\ users[req[1].userId] =
          [SeedUser EXCEPT !.password = bcryptHash(req[1].body.newPassword),
                           !.lastLogin = req[1].user.lastLogin,
                           !.isActive = FALSE]

\* C39, the other handlers: GET /me answered with the user the gate attached.
C39_WitnessMe ==
    /\ req[1].route = "me"
    /\ req[1].pc = "done"
    /\ req[1].nexts = 1
    /\ req[1].sent[1].status = 200
    /\ req[1].sent[1].user._id = req[1].userId
    /\ req[1].userId = req[1].header.rest.userId

----------------------------------------------------------------------------
(* Properties of termination *)

\* the request has its outcome: one response was sent
HasResponse(r) == r.pc = "done" /\ Len(r.sent) = 1

\* the gate of the request has its outcome: a response, or next() was called
GateDone(r) ==
    /\ r.route \in ProtectedRoutes
    /\ r.pc \notin GatePcs
    /\ r.nexts = 1 \/ HasResponse(r)

\* C40: provided the store answers every call (weak fairness of
\* StoreReturns for each request), every invocation of register, login,
\* refresh, logout, update-password and of the gate eventually has its
\* outcome: every request in flight is eventually answered with one
\* response, and a request the gate awaits the store for eventually is
\* answered by the gate or passed on. No request blocks another: whatever
\* the other requests wait for, the store's answer to a request in flight
\* can be taken.
C40_EveryInvocationCompletes ==
    /\ \A s \in Slots : InFlight(req[s]) ~> HasResponse(req[s])
    /\ \A s \in Slots : (req[s].pc \in GatePcs) ~> GateDone(req[s])
    /\ [](\A s \in Slots : InFlight(req[s]) => ENABLED StoreReturns(s))

\* C40 witness: a request is suspended on its store call while the request
\* of the other slot, which arrived after it, has been answered.
C40_Witness ==
    /\ InFlight(req[1])
    /\ req[1].pc = "updatePassword_save"
    /\ req[2].pc = "done"
    /\ 1 \in req[2].peers
    /\ req[2].route = "login"
    /\ req[2].sent[1].status = 200

============================================================================
